---- MODULE Spec2Model ----
(***************************************************************************)
(* Verification model of the krk-fd back-office API.                       *)
(*                                                                         *)
(* Part I   Ticket Workflow Engine: the loan-request handlers of           *)
(*          financeLoanRequestController.ts and                            *)
(*          adminLoanRequestController.ts, one step per awaited database   *)
(*          statement, run by concurrent requests.                         *)
(* Part II  Pending-Change Engine: the property and banner change handlers *)
(*          of the employee controllers, the admin review handlers and     *)
(*          the idempotency ledger.                                        *)
(***************************************************************************)
EXTENDS Integers, Sequences, FiniteSets, TLC

(***************************************************************************)
(* Part I.  Ticket Workflow Engine                                         *)
(***************************************************************************)

\* Bound: writes are no longer started once a ticket's version reached it.
MaxVersion == 3

\* users rows with role = 'employee', department = 'Finance', active = true.
FinanceEmployees == {"A", "B"}
\* The admin's user id: a users row that is no finance employee.
AdminId == "admin"
\* assignee_id IS NULL.
NoAssignee == "null"

\* The ids of the rows of loan_requests, and an id no row has.
TicketIds == {"t1"}
UnknownTicketId == "t0"
RequestIds == TicketIds \cup {UnknownTicketId}

\* The requests the server handles at a time: two concurrent ones, or one
\* after the other.
Calls == {"c1", "c2"}
SeqCalls == {"c1"}

Statuses == {"received", "under_review", "contacted", "closed", "rejected"}

\* ALLOWED_STATUS_TRANSITIONS[s] || []
ALLOWED_STATUS_TRANSITIONS(s) ==
  CASE s = "received"     -> {"under_review", "rejected"}
    [] s = "under_review" -> {"contacted", "rejected"}
    [] s = "contacted"    -> {"closed", "rejected"}
    [] OTHER              -> {}

VARIABLES
  loanRequests,   \* loan_requests: id -> row
  calls,          \* the requests in flight: call -> its handler, position and locals
  properties,                         \* properties: id -> row
  propertyEmployeeAssignments,        \* property_employee_assignments: {<<propertyId, employeeId>>}
  propertyPendingChanges,             \* property_pending_changes: id -> row
  propertyPendingChangesIdempotency,  \* property_pending_changes_idempotency: key -> change id
  banners,                            \* banners: id -> row
  bannerPendingChanges,               \* banner_pending_changes: id -> row
  uploads,                            \* uploads: id -> row (as getSignedUploadUrl inserts it)
  propertyAgentAssignments,           \* property_agent_assignments: {<<propertyId, agentId>>}
  users,                              \* users: id -> row (employees and agents)
  assignedAgentId,                    \* properties.assigned_agent_id: property id -> agent
  assignReply,    \* the response assignPropertiesToAgent sent last
  bannerSubmittedWith,  \* history: banner change id -> the idempotency key of its request
  loanRequestComments,  \* loan_request_comments: ticket id -> the number of its rows
  adminSlaConfigs,      \* admin_sla_configs: configValue.hours of the row loan_request_sla_hours
  loanRequestAuditLogs, \* loan_request_audit_logs: ticket id -> its status_change rows, in insertion order
  submittedWith,  \* history: change id -> the idempotency key of the request that inserted it
  last            \* the response sent last, with the request it answers

\* The tables of the Assignment Graph Maintainer (Part III), with the column
\* of properties that only it writes.
graphVars == <<propertyAgentAssignments, users, assignedAgentId, assignReply>>

\* What the handlers of Parts I and II leave alone, but for the two that
\* insert a banner change.
sideVars == <<graphVars, bannerSubmittedWith, loanRequestComments, adminSlaConfigs,
              loanRequestAuditLogs>>

\* The tables of the Pending-Change Engine (Part II) and of Part III.
changeVars == <<properties, propertyEmployeeAssignments, propertyPendingChanges,
                propertyPendingChangesIdempotency, banners, bannerPendingChanges,
                uploads, submittedWith, last, sideVars>>

vars == <<loanRequests, calls, changeVars>>

\* What an insert into loan_request_audit_logs leaves alone, the tickets and
\* the requests in flight aside.
auditFrame == <<properties, propertyEmployeeAssignments, propertyPendingChanges,
                propertyPendingChangesIdempotency, banners, bannerPendingChanges,
                uploads, submittedWith, last, graphVars, bannerSubmittedWith,
                loanRequestComments, adminSlaConfigs>>

\* No row (an empty select), and no value.
None == "-"
\* slaDueAt.setHours(slaDueAt.getHours() + 24): slaDueAt is kept as the
\* hours after the creation of the ticket.
DefaultSlaHours == 24
\* admin_sla_configs without a row loan_request_sla_hours (the table is the
\* set of the hours of its rows of that key; the key is unique).
NoSlaConfig == {}

NoRow == [status |-> None, assigneeId |-> None, version |-> 0,
          isEscalated |-> FALSE, escalationReason |-> None, priority |-> None,
          propertyValue |-> 0, loanAmountNeeded |-> 0, slaDueAt |-> 0]

\* A loan_requests row as createLoanRequest leaves it (column defaults).
NewTicket == [status |-> "received", assigneeId |-> NoAssignee, version |-> 1,
              isEscalated |-> FALSE, escalationReason |-> NoAssignee, priority |-> "normal",
              propertyValue |-> 1, loanAmountNeeded |-> 1, slaDueAt |-> DefaultSlaHours]

\* createAuditLog(id, actor, 'status_change', oldValue, newValue): the row it
\* inserts.  The rows of the other actions (assigned, reassigned, escalated,
\* bulk_reassigned, bulk_escalated, comment_added) are not kept.
StatusChange(oldValue, newValue) == [oldValue |-> oldValue, newValue |-> newValue]

\* The columns of the selected row (existing) that a handler reads later on.
NoExisting == [status |-> None, assigneeId |-> None, version |-> 0,
               isEscalated |-> FALSE, escalationReason |-> None]
Existing(row) == [status |-> row.status, assigneeId |-> row.assigneeId,
                  version |-> row.version, isEscalated |-> row.isEscalated,
                  escalationReason |-> row.escalationReason]

IdleCall == [op |-> None, pc |-> "idle", id |-> None, actor |-> None, arg |-> None,
             ex |-> NoExisting, code |-> 0, row |-> NoRow, named |-> None]

\* select().from(loanRequests).where(id = :id AND deleted_at IS NULL).limit(1)
SelectTicket(id) == IF id \in TicketIds THEN loanRequests[id] ELSE NoRow

\* The WHERE of the conditional update: id = :id AND version = existing.version.
VersionMatchesAlways(id, ex) == id \in TicketIds
VersionMatches(id, ex) == id \in TicketIds /\ loanRequests[id].version = ex.version

\* version: sql`version + 1`
NextVersionSame(row) == row.version
NextVersion(row) == row.version + 1

Begin(c, op, id, actor, arg) ==
  [IdleCall EXCEPT !.op = op, !.id = id, !.actor = actor, !.arg = arg]

Reply(call, code, row) == [call EXCEPT !.pc = "done", !.code = code, !.row = row]

\* A response sent before any row was looked at or found (a 400 or 404 body
\* holds a message only).
Refuse(call, code) == [IdleCall EXCEPT !.op = call.op, !.id = call.id, !.pc = "done",
                                       !.code = code]

\* A handler may start on a ticket only while its version is below the bound.
BelowBound(id) == id \in TicketIds => loanRequests[id].version < MaxVersion

(* ---- take -------------------------------------------------------------- *)

\* takeLoanRequest, up to the conditional update: select, 404, 409 when
\* assigned to someone else.
TakeRead(c, id, actor) ==
  /\ calls[c].pc = "idle"
  /\ BelowBound(id)
  /\ LET existing == SelectTicket(id)
         call == Begin(c, "take", id, actor, None)
     IN calls' = [calls EXCEPT ![c] =
          IF existing = NoRow THEN Refuse(call, 404)
          ELSE IF existing.assigneeId # NoAssignee /\ existing.assigneeId # actor
            THEN [Reply(call, 409, existing) EXCEPT !.named = existing.assigneeId,
                                                    !.ex = Existing(existing)]
          ELSE [call EXCEPT !.pc = "read", !.ex = Existing(existing)]]
  /\ UNCHANGED loanRequests
  /\ UNCHANGED changeVars

\* The row takeLoanRequest's update sets.
TakeRowKeepStatus(row, actor) ==
  [row EXCEPT !.assigneeId = actor, !.version = NextVersion(row)]
TakeRow(row, actor) ==
  [row EXCEPT !.assigneeId = actor, !.status = "under_review",
              !.version = NextVersion(row)]

\* takeLoanRequest's conditional update.
TakeWrite(c) ==
  /\ calls[c].pc = "read"
  /\ calls[c].op = "take"
  /\ LET id == calls[c].id IN
     IF VersionMatches(id, calls[c].ex)
       THEN /\ loanRequests' = [loanRequests EXCEPT ![id] = TakeRow(@, calls[c].actor)]
            /\ calls' = [calls EXCEPT ![c].pc = "audit",
                                      ![c].row = TakeRow(loanRequests[id], calls[c].actor)]
       ELSE /\ calls' = [calls EXCEPT ![c].pc = "conflict"]
            /\ UNCHANGED loanRequests
  /\ UNCHANGED changeVars

\* takeLoanRequest after a successful update: the assignment record and the
\* 'assigned' and 'status_change' audit entries, then the 200 response.
TakeAudit(c) ==
  /\ calls[c].pc = "audit"
  /\ calls[c].op = "take"
  /\ calls' = [calls EXCEPT ![c] = Reply(@, 200, @.row)]
  /\ loanRequestAuditLogs' =
       [loanRequestAuditLogs EXCEPT
          ![calls[c].id] = Append(@, StatusChange(calls[c].ex.status, "under_review"))]
  /\ UNCHANGED loanRequests
  /\ UNCHANGED auditFrame

(* ---- changeStatus (finance) ------------------------------------------- *)

\* (status === 'closed' || status === 'rejected') && !comment
CommentMissing(status, hasComment) == status \in {"closed", "rejected"} /\ ~hasComment

\* !allowedTransitions.includes(status)
TransitionRefusedNever(existing, status) == FALSE
TransitionRefused(existing, status) == status \notin ALLOWED_STATUS_TRANSITIONS(existing.status)

\* updateLoanRequestStatus, up to the conditional update: the comment rule,
\* select, 404, the adjacency table.
StatusRead(c, id, status, hasComment) ==
  /\ calls[c].pc = "idle"
  /\ BelowBound(id)
  /\ LET existing == SelectTicket(id)
         call == Begin(c, "status", id, None, status)
     IN calls' = [calls EXCEPT ![c] =
          IF CommentMissing(status, hasComment) THEN Refuse(call, 400)
          ELSE IF existing = NoRow THEN Refuse(call, 404)
          ELSE IF TransitionRefused(existing, status)
            THEN [Reply(call, 400, NoRow) EXCEPT !.ex = Existing(existing)]
          ELSE [call EXCEPT !.pc = "read", !.ex = Existing(existing)]]
  /\ UNCHANGED loanRequests
  /\ UNCHANGED changeVars

\* The row a changeStatus update sets (finance and admin alike).
StatusRow(row, status) == [row EXCEPT !.status = status, !.version = NextVersion(row)]

\* The conditional update of updateLoanRequestStatus and of
\* changeAdminLoanRequestStatus.
StatusWrite(c) ==
  /\ calls[c].pc = "read"
  /\ calls[c].op \in {"status", "adminStatus"}
  /\ LET id == calls[c].id IN
     IF VersionMatches(id, calls[c].ex)
       THEN /\ loanRequests' = [loanRequests EXCEPT ![id] = StatusRow(@, calls[c].arg)]
            /\ calls' = [calls EXCEPT ![c].pc = "audit",
                                      ![c].row = StatusRow(loanRequests[id], calls[c].arg)]
       ELSE /\ calls' = [calls EXCEPT ![c].pc = "conflict"]
            /\ UNCHANGED loanRequests
  /\ UNCHANGED changeVars

\* After a successful update: the 'status_change' audit entry, then 200.
StatusAudit(c) ==
  /\ calls[c].pc = "audit"
  /\ calls[c].op \in {"status", "adminStatus"}
  /\ calls' = [calls EXCEPT ![c] = Reply(@, 200, @.row)]
  /\ loanRequestAuditLogs' =
       [loanRequestAuditLogs EXCEPT
          ![calls[c].id] = Append(@, StatusChange(calls[c].ex.status, calls[c].arg))]
  /\ UNCHANGED loanRequests
  /\ UNCHANGED auditFrame

(* ---- changeStatus (admin) --------------------------------------------- *)

\* changeAdminLoanRequestStatus, up to the conditional update: the comment
\* rule, select, 404.  There is no adjacency check in this handler.
AdminStatusRead(c, id, status, hasComment) ==
  /\ calls[c].pc = "idle"
  /\ BelowBound(id)
  /\ LET existing == SelectTicket(id)
         call == Begin(c, "adminStatus", id, None, status)
     IN calls' = [calls EXCEPT ![c] =
          IF CommentMissing(status, hasComment) THEN Refuse(call, 400)
          ELSE IF existing = NoRow THEN Refuse(call, 404)
          ELSE [call EXCEPT !.pc = "read", !.ex = Existing(existing)]]
  /\ UNCHANGED loanRequests
  /\ UNCHANGED changeVars

(* ---- reassign ---------------------------------------------------------- *)

\* COUNT of the non-deleted tickets assigned to u whose status is not in
\* ('closed', 'rejected').
OpenTickets(u) ==
  Cardinality({t \in TicketIds : /\ loanRequests[t].assigneeId = u
                                 /\ loanRequests[t].status \notin {"closed", "rejected"}})

\* ORDER BY COUNT(...) LIMIT 1 over the active finance employees: any one
\* of the least loaded (the order among ties is not fixed).
LeastLoaded ==
  {u \in FinanceEmployees : \A v \in FinanceEmployees : OpenTickets(u) <= OpenTickets(v)}

\* The row reassignLoanRequest's update sets.
ReassignRow(row, existing, target) ==
  [row EXCEPT !.assigneeId = target,
              !.status = IF existing.status = "received" THEN "under_review"
                         ELSE existing.status,
              !.version = NextVersion(row)]

\* reassignLoanRequest, up to the conditional update.  assigneeId = None is
\* an absent assigneeId; chosen is the employee the auto-assign query returns.
ReassignRead(c, id, assigneeId, autoAssign, chosen) ==
  /\ calls[c].pc = "idle"
  /\ BelowBound(id)
  /\ chosen \in LeastLoaded
  /\ LET existing == SelectTicket(id)
         target == IF autoAssign THEN chosen ELSE assigneeId
         call == Begin(c, "reassign", id, None, target)
     IN calls' = [calls EXCEPT ![c] =
          IF assigneeId = None /\ ~autoAssign THEN Refuse(call, 400)
          ELSE IF existing = NoRow THEN Refuse(call, 404)
          ELSE IF target \notin FinanceEmployees THEN Refuse(call, 400)
          ELSE [call EXCEPT !.pc = "read", !.ex = Existing(existing)]]
  /\ UNCHANGED loanRequests
  /\ UNCHANGED changeVars

\* reassignLoanRequest's conditional update.
ReassignWrite(c) ==
  /\ calls[c].pc = "read"
  /\ calls[c].op = "reassign"
  /\ LET id == calls[c].id IN
     IF VersionMatches(id, calls[c].ex)
       THEN /\ loanRequests' = [loanRequests EXCEPT
                                  ![id] = ReassignRow(@, calls[c].ex, calls[c].arg)]
            /\ calls' = [calls EXCEPT
                 ![c].pc = "audit",
                 ![c].row = ReassignRow(loanRequests[id], calls[c].ex, calls[c].arg)]
       ELSE /\ calls' = [calls EXCEPT ![c].pc = "conflict"]
            /\ UNCHANGED loanRequests
  /\ UNCHANGED changeVars

\* After a successful update: the assignment record and the 'reassigned'
\* audit entry (no 'status_change' entry), then 200.
ReassignAudit(c) ==
  /\ calls[c].pc = "audit"
  /\ calls[c].op = "reassign"
  /\ calls' = [calls EXCEPT ![c] = Reply(@, 200, @.row)]
  /\ UNCHANGED loanRequests
  /\ UNCHANGED changeVars

(* ---- escalate ---------------------------------------------------------- *)

\* The row escalateLoanRequest's update sets.
EscalateRow(row) ==
  [row EXCEPT !.isEscalated = TRUE, !.escalationReason = "reason",
              !.priority = "high", !.version = NextVersion(row)]

\* escalateLoanRequest, up to the conditional update.
EscalateRead(c, id) ==
  /\ calls[c].pc = "idle"
  /\ BelowBound(id)
  /\ LET existing == SelectTicket(id)
         call == Begin(c, "escalate", id, None, None)
     IN calls' = [calls EXCEPT ![c] =
          IF existing = NoRow THEN Refuse(call, 404)
          ELSE [call EXCEPT !.pc = "read", !.ex = Existing(existing)]]
  /\ UNCHANGED loanRequests
  /\ UNCHANGED changeVars

\* escalateLoanRequest's conditional update.
EscalateWrite(c) ==
  /\ calls[c].pc = "read"
  /\ calls[c].op = "escalate"
  /\ LET id == calls[c].id IN
     IF VersionMatches(id, calls[c].ex)
       THEN /\ loanRequests' = [loanRequests EXCEPT ![id] = EscalateRow(@)]
            /\ calls' = [calls EXCEPT ![c].pc = "audit",
                                      ![c].row = EscalateRow(loanRequests[id])]
       ELSE /\ calls' = [calls EXCEPT ![c].pc = "conflict"]
            /\ UNCHANGED loanRequests
  /\ UNCHANGED changeVars

\* After a successful update: the 'escalated' audit entry, then 200.
EscalateAudit(c) ==
  /\ calls[c].pc = "audit"
  /\ calls[c].op = "escalate"
  /\ calls' = [calls EXCEPT ![c] = Reply(@, 200, @.row)]
  /\ UNCHANGED loanRequests
  /\ UNCHANGED changeVars

(* ---- bulk variants ----------------------------------------------------- *)

\* The row bulkReassignLoanRequests' update sets.
BulkReassignRow(row, target) == [row EXCEPT !.assigneeId = target]

\* bulkReassignLoanRequests: one unconditional update of the rows whose id is
\* in ids, then an assignment record and a 'bulk_reassigned' audit entry per
\* updated row.
BulkReassign(ids, assigneeId, autoAssign, chosen) ==
  /\ chosen \in LeastLoaded
  /\ assigneeId # None \/ autoAssign
  /\ LET target == IF autoAssign THEN chosen ELSE assigneeId IN
     loanRequests' = [t \in TicketIds |->
                        IF t \in ids THEN BulkReassignRow(loanRequests[t], target)
                        ELSE loanRequests[t]]
  /\ UNCHANGED calls
  /\ UNCHANGED changeVars

\* The row bulkEscalateLoanRequests' update sets.
BulkEscalateRow(row) ==
  [row EXCEPT !.isEscalated = TRUE, !.escalationReason = "reason", !.priority = "high"]

\* bulkEscalateLoanRequests: one unconditional update, then a 'bulk_escalated'
\* audit entry per updated row.
BulkEscalate(ids) ==
  /\ loanRequests' = [t \in TicketIds |->
                        IF t \in ids THEN BulkEscalateRow(loanRequests[t])
                        ELSE loanRequests[t]]
  /\ UNCHANGED calls
  /\ UNCHANGED changeVars

(* ---- the shared conflict path ------------------------------------------ *)

\* The row a 409 carries: select().from(loanRequests).where(id = :id)
ConflictRowStale(c) == calls[c].ex
ConflictRow(c) == loanRequests[calls[c].id]

\* if (!updated): re-read the row and answer 409 with it.
ConflictReread(c) ==
  /\ calls[c].pc = "conflict"
  /\ calls' = [calls EXCEPT ![c] = Reply(@, 409, ConflictRow(c))]
  /\ UNCHANGED loanRequests
  /\ UNCHANGED changeVars

\* The response has been sent; the server takes the next request.
Finish(c) ==
  /\ calls[c].pc = "done"
  /\ calls' = [calls EXCEPT ![c] = IdleCall]
  /\ UNCHANGED loanRequests
  /\ UNCHANGED changeVars

(* ---- comments ---------------------------------------------------------- *)

\* Bound: the comments a ticket gets.
MaxComments == 1

\* update(loanRequests).set({ lastActivityAt: new Date() }): the SET clause
\* names lastActivityAt alone, a column the rows here do not carry.
CommentRowBumped(row) == [row EXCEPT !.version = NextVersion(row)]
CommentRow(row) == row

\* addLoanRequestComment of a finance employee: 404 without the ticket; else
\* the comment is inserted and the ticket's lastActivityAt set, whatever the
\* status and whoever the assignee.
AddLoanRequestComment(id, financeId) ==
  /\ id \in TicketIds => loanRequestComments[id] < MaxComments
  /\ IF SelectTicket(id) = NoRow
       THEN UNCHANGED <<loanRequests, loanRequestComments>>
       ELSE /\ loanRequestComments' = [loanRequestComments EXCEPT ![id] = @ + 1]
            /\ loanRequests' = [loanRequests EXCEPT ![id] = CommentRow(@)]
  /\ UNCHANGED <<calls, properties, propertyEmployeeAssignments, propertyPendingChanges,
                 propertyPendingChangesIdempotency, banners, bannerPendingChanges,
                 uploads, submittedWith, last, graphVars, bannerSubmittedWith,
                 adminSlaConfigs, loanRequestAuditLogs>>

\* addAdminLoanRequestComment: the same statements, the admin the author.
AddAdminLoanRequestComment(id) == AddLoanRequestComment(id, AdminId)

TicketInit ==
  /\ loanRequests = [t \in TicketIds |-> NewTicket]
  /\ calls = [c \in Calls |-> IdleCall]

\* One request at a time (no request starts while another is in flight);
\* with nothing in between a read and its write, no conditional update
\* conflicts here.
TicketNext ==
  \/ \E c \in SeqCalls, id \in RequestIds, a \in FinanceEmployees : TakeRead(c, id, a)
  \/ \E c \in SeqCalls : TakeWrite(c)
  \/ \E c \in SeqCalls : TakeAudit(c)
  \/ \E c \in SeqCalls, id \in RequestIds, s \in Statuses,
        hasComment \in BOOLEAN : StatusRead(c, id, s, hasComment)
  \/ \E c \in SeqCalls, id \in RequestIds, s \in Statuses,
        hasComment \in BOOLEAN : AdminStatusRead(c, id, s, hasComment)
  \/ \E c \in SeqCalls : StatusWrite(c)
  \/ \E c \in SeqCalls : StatusAudit(c)
  \/ \E c \in SeqCalls, id \in RequestIds, u \in FinanceEmployees \cup {AdminId, None},
        autoAssign \in BOOLEAN, chosen \in FinanceEmployees :
          ReassignRead(c, id, u, autoAssign, chosen)
  \/ \E c \in SeqCalls : ReassignWrite(c)
  \/ \E c \in SeqCalls : ReassignAudit(c)
  \/ \E c \in SeqCalls, id \in RequestIds : EscalateRead(c, id)
  \/ \E c \in SeqCalls : EscalateWrite(c)
  \/ \E c \in SeqCalls : EscalateAudit(c)
  \/ \E ids \in SUBSET RequestIds \ {{}}, u \in FinanceEmployees \cup {None},
        autoAssign \in BOOLEAN, chosen \in FinanceEmployees :
          BulkReassign(ids, u, autoAssign, chosen)
  \/ \E ids \in SUBSET RequestIds \ {{}} : BulkEscalate(ids)
  \/ \E c \in SeqCalls : Finish(c)

\* Two concurrent changeStatus requests (finance or admin) at a time.
StatusRaceNext ==
  \/ \E c \in Calls, id \in RequestIds, s \in Statuses,
        hasComment \in BOOLEAN : StatusRead(c, id, s, hasComment)
  \/ \E c \in Calls, id \in RequestIds, s \in Statuses,
        hasComment \in BOOLEAN : AdminStatusRead(c, id, s, hasComment)
  \/ \E c \in Calls : StatusWrite(c)
  \/ \E c \in Calls : StatusAudit(c)
  \/ \E c \in Calls : ConflictReread(c)
  \/ \E c \in Calls : Finish(c)

(***************************************************************************)
(* Part II.  Pending-Change Engine                                         *)
(***************************************************************************)

\* users rows with role = 'employee' that propose changes.
Employees == {"A", "B"}
\* The agents (users with the role agent).
Agents == {"g1", "g2"}
\* res.json({ added, removed }) of assignPropertiesToAgent, or the status of
\* its error response (code 0: no response yet).
NoAssignReply == [code |-> 0, added |-> 0, removed |-> 0]

\* propertyId: null / bannerId: null (a change that creates a new entity).
NullId == "null"

\* The ids of properties rows: p1 exists from the start, p2 is the id the
\* first inserted property gets; and an id no row has.
PropertyIds == {"p1", "p2"}
UnknownPropertyId == "p0"
\* The ids of banners rows, likewise.
BannerIds == {"b1", "b2"}

\* The ids of property_pending_changes and of banner_pending_changes rows
\* (uuids: the two tables share none), and an id no row has.
PropertyChangeIds == {"pc1", "pc2"}
BannerChangeIds == {"bc1", "bc2"}
UnknownChangeId == "x0"

\* Values of the idempotency key of a request; None is a request without one.
IdempotencyKeys == {"k1"}

\* Values of a proposed payload, of an admin's mergedPayload, and the field
\* values of the canonical rows that exist from the start.
Payloads == {"new", "edit"}
MergedPayload == "merged"
OldPayload == "old"

\* A payload with a key the employee allow-lists do not hold.
StampedPayload == "stamped"

\* Object.keys(proposed_payload) of the request of the kind with the payload.
PayloadFields(kind, payload) ==
  IF kind = "property"
    THEN {"title", "location"} \cup (IF payload = "edit" THEN {"price"} ELSE {})
                               \cup (IF payload = StampedPayload THEN {"assignedEmployeeId"}
                                     ELSE {})
    ELSE {"imageUrl", "title", "subtitle"}
           \cup (IF payload = "edit" THEN {"targetRole"} ELSE {})
           \cup (IF payload = StampedPayload THEN {"displayOrder"} ELSE {})

\* ALLOWED_EMPLOYEE_FIELDS of financeLoanRequestController.ts and of
\* employeeBannerController.ts.
ALLOWED_EMPLOYEE_FIELDS(kind) ==
  IF kind = "property"
    THEN {"title", "location", "price", "type", "description", "images", "gallery",
          "features", "amenities", "categories", "brochureUrl", "map", "website"}
    ELSE {"imageUrl", "title", "subtitle", "targetRole", "isActive"}

\* The ids of the rows of uploads: u1 is A's, u2 is B's.
UploadIds == {"u1", "u2"}

\* select from uploads where id in (uploadIds) and ownerId = :employeeId
OwnedUploads(uploadIds, employeeId) ==
  {u \in UploadIds : /\ \E i \in 1..Len(uploadIds) : uploadIds[i] = u
                     /\ uploads[u].ownerId = employeeId}

\* uploadRecords.length !== uploadIds.length
InvalidUploadsNever(uploadIds, employeeId) == FALSE
InvalidUploads(uploadIds, employeeId) ==
  Cardinality(OwnedUploads(uploadIds, employeeId)) # Len(uploadIds)

\* update uploads set status = 'referenced', referencedByChangeId = :changeId
\* where id in (uploadIds)
Referenced(uploadIds, changeId) ==
  [u \in UploadIds |->
     IF \E i \in 1..Len(uploadIds) : uploadIds[i] = u
       THEN [uploads[u] EXCEPT !.status = "referenced",
                               !.referencedByChangeId = changeId]
       ELSE uploads[u]]

\* No row of properties / banners, and no row of a pending-changes table.
NoProperty == [payload |-> None, deleted |-> FALSE, assignedEmployeeId |-> None,
               createdByEmployeeId |-> None]
NoBanner == [payload |-> None]
NoChange == [target |-> None, proposerId |-> None, proposedPayload |-> None,
             status |-> None, isDraft |-> FALSE, reviewedByAdminId |-> None]

\* The last request was not a submitPendingChange, or there was none.
NoReply == [key |-> None, code |-> 0, changeId |-> None, idempotent |-> FALSE]

\* res.status(code).json({ changeId, ..., idempotent }) of submitPendingChange
\* called with the key; a 409 names existingChangeId, a 403 or 500 has a
\* message only.
Response(key, code, changeId, idempotent) ==
  [key |-> key, code |-> code, changeId |-> changeId, idempotent |-> idempotent]

\* defaultRandom(): an id no row of the table has.
FreshId(table, ids) == CHOOSE i \in ids : table[i] = None
HasFreshId(table, ids) == \E i \in ids : table[i] = None

\* DELETE FROM property_pending_changes WHERE id = :id; the idempotency rows
\* that reference it go with it (ON DELETE CASCADE).  The delete is refused
\* while a row of uploads references the change (a foreign key without
\* cascade).
DeletePropertyChange(id) ==
  IF \E u \in UploadIds : uploads[u].referencedByChangeId = id
    THEN UNCHANGED <<propertyPendingChanges, propertyPendingChangesIdempotency,
                     submittedWith>>
    ELSE /\ propertyPendingChanges' = [propertyPendingChanges EXCEPT ![id] = NoChange]
         /\ propertyPendingChangesIdempotency' =
              [k \in IdempotencyKeys |->
                 IF propertyPendingChangesIdempotency[k] = id THEN None
                 ELSE propertyPendingChangesIdempotency[k]]
         /\ submittedWith' = [submittedWith EXCEPT ![id] = None]

(* ---- submitChange (property) ------------------------------------------- *)

\* The request of a submitPendingChange call in flight.
SubmitCall(actor, id, payload, uploadIds, key, isDraft) ==
  [op |-> "submit", pc |-> "authorize", id |-> id, actor |-> actor, payload |-> payload,
   uploadIds |-> uploadIds, key |-> key, isDraft |-> isDraft, changeId |-> None]

\* select from propertyPendingChangesIdempotency where idempotencyKey = :key
LedgerLookupMiss(key) == None
LedgerLookup(key) == IF key = None THEN None ELSE propertyPendingChangesIdempotency[key]

\* submitPendingChange, the ledger lookup: on a hit the change the ledger row
\* names is answered with idempotent: true.
SubmitBegin(c, actor, id, payload, uploadIds, key, isDraft) ==
  /\ calls[c].pc = "idle"
  /\ LET existing == LedgerLookup(key) IN
     IF existing # None
       THEN /\ last' = Response(key, 200, existing, TRUE)
            /\ UNCHANGED calls
       ELSE /\ calls' = [calls EXCEPT ![c] = SubmitCall(actor, id, payload, uploadIds,
                                                       key, isDraft)]
            /\ UNCHANGED last
  /\ UNCHANGED <<loanRequests, sideVars, uploads, properties, propertyEmployeeAssignments,
                 propertyPendingChanges, propertyPendingChangesIdempotency, banners,
                 bannerPendingChanges, submittedWith>>

\* The assignment select returned a row and the select of the property
\* (id = :id and deleted = false) returned one.
AuthorizedAlways(id, actor) == TRUE
Authorized(id, actor) ==
  /\ <<id, actor>> \in propertyEmployeeAssignments
  /\ id \in PropertyIds /\ properties[id] # NoProperty /\ ~properties[id].deleted

\* submitPendingChange, the assignment and the property selects: 403 unless
\* the property is assigned to the actor and not deleted; then the
\* allow-list: 400 when the payload has a key outside it.
SubmitAuthorize(c) ==
  /\ calls[c].pc = "authorize"
  /\ LET call == calls[c]
         invalidFields == PayloadFields("property", call.payload)
                            \ ALLOWED_EMPLOYEE_FIELDS("property")
     IN IF ~Authorized(call.id, call.actor)
          THEN /\ calls' = [calls EXCEPT ![c] = IdleCall]
               /\ last' = Response(call.key, 403, None, FALSE)
        ELSE IF invalidFields # {}
          THEN /\ calls' = [calls EXCEPT ![c] = IdleCall]
               /\ last' = Response(call.key, 400, None, FALSE)
        ELSE /\ calls' = [calls EXCEPT ![c].pc = IF Len(call.uploadIds) > 0 THEN "uploads"
                                                ELSE "check"]
             /\ UNCHANGED last
  /\ UNCHANGED <<loanRequests, sideVars, uploads, properties, propertyEmployeeAssignments,
                 propertyPendingChanges, propertyPendingChangesIdempotency, banners,
                 bannerPendingChanges, submittedWith>>

\* submitPendingChange, the select of the uploaded assets: 400 unless every
\* id of the list is an upload of the actor.
SubmitUploads(c) ==
  /\ calls[c].pc = "uploads"
  /\ LET call == calls[c] IN
     IF InvalidUploads(call.uploadIds, call.actor)
       THEN /\ calls' = [calls EXCEPT ![c] = IdleCall]
            /\ last' = Response(call.key, 400, None, FALSE)
       ELSE /\ calls' = [calls EXCEPT ![c].pc = "check"]
            /\ UNCHANGED last
  /\ UNCHANGED <<loanRequests, sideVars, uploads, properties, propertyEmployeeAssignments,
                 propertyPendingChanges, propertyPendingChangesIdempotency, banners,
                 bannerPendingChanges, submittedWith>>

\* The rows the live-pending query selects: propertyId, proposerId,
\* status = 'pending', isDraft = false, and id != exclude.
LivePendingNone(propertyId, employeeId, exclude) == {}
LivePending(propertyId, employeeId, exclude) ==
  {ch \in PropertyChangeIds \ {exclude} :
     /\ propertyPendingChanges[ch].target = propertyId
     /\ propertyPendingChanges[ch].proposerId = employeeId
     /\ propertyPendingChanges[ch].status = "pending"
     /\ propertyPendingChanges[ch].isDraft = FALSE}

\* submitPendingChange, the live-pending check: unless a draft is created,
\* 409 naming the existing pending change.
SubmitCheck(c) ==
  /\ calls[c].pc = "check"
  /\ LET call == calls[c]
         existingPendingChange == LivePending(call.id, call.actor, None)
     IN IF ~call.isDraft /\ existingPendingChange # {}
          THEN /\ calls' = [calls EXCEPT ![c] = IdleCall]
               /\ last' = Response(call.key, 409, CHOOSE ch \in existingPendingChange : TRUE, FALSE)
          ELSE /\ calls' = [calls EXCEPT ![c].pc = "insert"]
               /\ UNCHANGED last
  /\ UNCHANGED <<loanRequests, sideVars, uploads, properties, propertyEmployeeAssignments,
                 propertyPendingChanges, propertyPendingChangesIdempotency, banners,
                 bannerPendingChanges, submittedWith>>

\* The row submitPendingChange inserts.
SubmittedChangeAsDraft(call) ==
  [target |-> call.id, proposerId |-> call.actor, proposedPayload |-> call.payload,
   status |-> "draft", isDraft |-> TRUE, reviewedByAdminId |-> None]
SubmittedChange(call) ==
  [target |-> call.id, proposerId |-> call.actor, proposedPayload |-> call.payload,
   status |-> IF call.isDraft THEN "draft" ELSE "pending", isDraft |-> call.isDraft,
   reviewedByAdminId |-> None]

\* The status column of the table as a function id -> status (None: no row).
StatusOf(table) == [i \in DOMAIN table |-> table[i].status]

\* submitPendingChange, the insert and the update that marks the uploaded
\* assets as referenced by the new change; without a key the 201 follows.
SubmitInsert(c) ==
  /\ calls[c].pc = "insert"
  /\ HasFreshId(StatusOf(propertyPendingChanges), PropertyChangeIds)
  /\ LET call == calls[c]
         id == FreshId(StatusOf(propertyPendingChanges), PropertyChangeIds)
     IN /\ propertyPendingChanges' =
             [propertyPendingChanges EXCEPT ![id] = SubmittedChange(call)]
        /\ submittedWith' = [submittedWith EXCEPT ![id] = call.key]
        /\ uploads' = Referenced(call.uploadIds, id)
        /\ IF call.key # None
             THEN /\ calls' = [calls EXCEPT ![c].pc = "record", ![c].changeId = id]
                  /\ UNCHANGED last
             ELSE /\ calls' = [calls EXCEPT ![c] = IdleCall]
                  /\ last' = Response(call.key, 201, id, FALSE)
  /\ UNCHANGED <<loanRequests, sideVars, properties, propertyEmployeeAssignments,
                 propertyPendingChangesIdempotency, banners, bannerPendingChanges>>

\* submitPendingChange, the ledger insert: the key is the table's primary
\* key, so a second row for it is refused and the handler answers 500.
SubmitRecord(c) ==
  /\ calls[c].pc = "record"
  /\ LET call == calls[c] IN
     IF propertyPendingChangesIdempotency[call.key] = None
       THEN /\ propertyPendingChangesIdempotency' =
                 [propertyPendingChangesIdempotency EXCEPT ![call.key] = call.changeId]
            /\ last' = Response(call.key, 201, call.changeId, FALSE)
       ELSE /\ UNCHANGED propertyPendingChangesIdempotency
            /\ last' = Response(call.key, 500, None, FALSE)
  /\ calls' = [calls EXCEPT ![c] = IdleCall]
  /\ UNCHANGED <<loanRequests, sideVars, uploads, properties, propertyEmployeeAssignments,
                 propertyPendingChanges, banners, bannerPendingChanges, submittedWith>>

(* ---- the other employee handlers (property) ---------------------------- *)

\* What the handlers below leave alone; their responses are not kept.
PropertyChangeFrame ==
  /\ last' = NoReply
  /\ UNCHANGED <<loanRequests, sideVars, uploads, calls, properties, propertyEmployeeAssignments, banners,
                 bannerPendingChanges>>

\* The row createProperty inserts: propertyId null.
CreatedChange(actor, payload, isDraft) ==
  [target |-> NullId, proposerId |-> actor, proposedPayload |-> payload,
   status |-> IF isDraft THEN "draft" ELSE "pending", isDraft |-> isDraft,
   reviewedByAdminId |-> None]

\* createProperty: inserts the change; no check.
CreateProperty(actor, payload, isDraft) ==
  /\ HasFreshId(StatusOf(propertyPendingChanges), PropertyChangeIds)
  /\ propertyPendingChanges' = [propertyPendingChanges EXCEPT
       ![FreshId(StatusOf(propertyPendingChanges), PropertyChangeIds)] =
           CreatedChange(actor, payload, isDraft)]
  /\ UNCHANGED <<propertyPendingChangesIdempotency, submittedWith>>
  /\ PropertyChangeFrame

\* select from propertyPendingChanges where id = :changeId and proposerId = :employeeId
OwnChange(changeId, employeeId) ==
  IF changeId \in PropertyChangeIds /\ propertyPendingChanges[changeId].proposerId = employeeId
    THEN propertyPendingChanges[changeId] ELSE NoChange

\* The row withdrawPendingChange's update sets with moveToDraft.
WithdrawnToDraft(row) == [row EXCEPT !.isDraft = TRUE, !.status = "draft"]

\* withdrawPendingChange: the proposer's change, whatever its status, is
\* moved to draft or deleted; 404 without it.
WithdrawPendingChange(actor, changeId, moveToDraft) ==
  /\ IF OwnChange(changeId, actor) = NoChange
       THEN UNCHANGED <<propertyPendingChanges, propertyPendingChangesIdempotency,
                        submittedWith>>
     ELSE IF moveToDraft
       THEN /\ propertyPendingChanges' = [propertyPendingChanges EXCEPT
                                            ![changeId] = WithdrawnToDraft(@)]
            /\ UNCHANGED <<propertyPendingChangesIdempotency, submittedWith>>
     ELSE DeletePropertyChange(changeId)
  /\ PropertyChangeFrame

\* select ... where id = :changeId and proposerId = :employeeId
\*             and (isDraft = true or status = 'needs_revision')
OwnDraft(changeId, employeeId) ==
  LET change == OwnChange(changeId, employeeId) IN
  IF change # NoChange /\ (change.isDraft \/ change.status = "needs_revision")
    THEN change ELSE NoChange

\* updateDraft: replaces the proposed payload of the proposer's draft or
\* revision; 404 without it.
UpdateDraft(actor, changeId, payload) ==
  /\ propertyPendingChanges' =
       IF OwnDraft(changeId, actor) = NoChange THEN propertyPendingChanges
       ELSE [propertyPendingChanges EXCEPT ![changeId].proposedPayload = payload]
  /\ UNCHANGED <<propertyPendingChangesIdempotency, submittedWith>>
  /\ PropertyChangeFrame

\* The row submitDraft's update sets.
SubmittedDraft(row) == [row EXCEPT !.isDraft = FALSE, !.status = "pending"]

\* submitDraft: the proposer's draft or revision becomes pending; 404
\* without it, 409 when the change has a property and that property has
\* another live pending change of the proposer.
SubmitDraft(actor, changeId) ==
  /\ LET change == OwnDraft(changeId, actor)
         existingPendingChange ==
           IF change.target # NullId THEN LivePending(change.target, actor, changeId)
           ELSE {}
     IN propertyPendingChanges' =
          IF change = NoChange \/ existingPendingChange # {} THEN propertyPendingChanges
          ELSE [propertyPendingChanges EXCEPT ![changeId] = SubmittedDraft(@)]
  /\ UNCHANGED <<propertyPendingChangesIdempotency, submittedWith>>
  /\ PropertyChangeFrame

\* discardDraft: deletes the row if it is the proposer's and isDraft = true;
\* answers success either way.
DiscardDraft(actor, changeId) ==
  /\ IF OwnChange(changeId, actor) # NoChange /\ OwnChange(changeId, actor).isDraft
       THEN DeletePropertyChange(changeId)
       ELSE UNCHANGED <<propertyPendingChanges, propertyPendingChangesIdempotency,
                        submittedWith>>
  /\ PropertyChangeFrame

(* ---- approve ------------------------------------------------------------ *)

\* No row of banner_pending_changes (the table has no isDraft column).
NoBannerChange == [target |-> None, proposerId |-> None, proposedPayload |-> None,
                   status |-> None, reviewedByAdminId |-> None]

\* The table that holds the change: the review handlers look in
\* propertyPendingChanges first, then in bannerPendingChanges.
IsPropertyChange(changeId) ==
  changeId \in PropertyChangeIds /\ propertyPendingChanges[changeId] # NoChange
IsBannerChange(changeId) ==
  changeId \in BannerChangeIds /\ bannerPendingChanges[changeId] # NoBannerChange

\* applyAs === 'mergedPayload' && mergedPayload ? mergedPayload : proposedPayload
ChosenPayload(change, merged) == IF merged # None THEN merged ELSE change.proposedPayload

\* status !== 'pending' && status !== 'needs_revision'
AlreadyProcessed(change) == change.status \notin {"pending", "needs_revision"}

\* .set({ status, reviewedAt: new Date(), reviewedByAdminId: adminId })
Reviewed(row, status) == [row EXCEPT !.status = status, !.reviewedByAdminId = AdminId]

\* No row of the canonical table of the kind.
NoRowOf(kind) == IF kind = "property" THEN NoProperty ELSE NoBanner

\* The locals of an approvePendingChange call in flight: the change's kind,
\* target and proposer, the payload to apply, the id written to, the
\* snapshot (oldProperty / oldBanner; no row for none) and whether the
\* canonical write returned a row (property / banner is defined).
ApproveCall(changeId, kind, change, merged) ==
  [op |-> "approve", pc |-> "write", changeId |-> changeId, kind |-> kind,
   target |-> change.target, proposerId |-> change.proposerId,
   payload |-> ChosenPayload(change, merged), where |-> None, old |-> NoRowOf(kind),
   written |-> FALSE]

\* approvePendingChange, the selects and the status check: 404 without the
\* change, 400 unless it is pending or needs_revision.
ApproveBegin(c, changeId, merged) ==
  /\ calls[c].pc = "idle"
  /\ calls' =
       IF IsPropertyChange(changeId) /\ ~AlreadyProcessed(propertyPendingChanges[changeId])
         THEN [calls EXCEPT ![c] = ApproveCall(changeId, "property",
                                               propertyPendingChanges[changeId], merged)]
       ELSE IF ~IsPropertyChange(changeId) /\ IsBannerChange(changeId)
                 /\ ~AlreadyProcessed(bannerPendingChanges[changeId])
         THEN [calls EXCEPT ![c] = ApproveCall(changeId, "banner",
                                               bannerPendingChanges[changeId], merged)]
       ELSE calls
  /\ last' = NoReply
  /\ UNCHANGED <<loanRequests, sideVars, uploads, properties, propertyEmployeeAssignments,
                 propertyPendingChanges, propertyPendingChangesIdempotency, banners,
                 bannerPendingChanges, submittedWith>>

\* The canonical table of the call's kind as id -> payload (None: no row).
PayloadOf(table) == [i \in DOMAIN table |-> table[i].payload]

\* The assignedEmployeeId a payload carries (None: it has no such key).  The
\* merged payload is the admin's (z.any()): here it names B.
AssigneeIn(payload) == IF payload = MergedPayload THEN "B" ELSE None

\* The row the insert of a creation writes.  In
\* { ...payload, assignedEmployeeId: proposerId, createdByEmployeeId: proposerId }
\* the keys written after the spread win: the property is stamped with the
\* proposer.  The banner is the payload.
InsertedPropertyAsPayload(call) ==
  [payload |-> call.payload, deleted |-> FALSE,
   assignedEmployeeId |-> IF AssigneeIn(call.payload) # None
                            THEN AssigneeIn(call.payload) ELSE call.proposerId,
   createdByEmployeeId |-> call.proposerId]
InsertedProperty(call) ==
  [payload |-> call.payload, deleted |-> FALSE, assignedEmployeeId |-> call.proposerId,
   createdByEmployeeId |-> call.proposerId]
InsertedBanner(call) == [payload |-> call.payload]

\* approvePendingChange, the snapshot and the canonical write: an update in
\* place of the row the change targets (no row: nothing is returned), or an
\* insert.  The write may throw.
ApproveWrite(c, throws) ==
  /\ calls[c].pc = "write"
  /\ LET call == calls[c]
         table == IF call.kind = "property" THEN properties ELSE banners
         ids == IF call.kind = "property" THEN PropertyIds ELSE BannerIds
         old == IF call.target # NullId THEN table[call.target] ELSE NoRowOf(call.kind)
         where == IF call.target # NullId THEN call.target
                  ELSE FreshId(PayloadOf(table), ids)
         row == IF call.target # NullId THEN [table[call.target] EXCEPT !.payload = call.payload]
                ELSE IF call.kind = "property" THEN InsertedProperty(call)
                ELSE InsertedBanner(call)
         written == ~throws /\ (call.target = NullId \/ old # NoRowOf(call.kind))
     IN /\ call.target = NullId => HasFreshId(PayloadOf(table), ids)
        /\ calls' = [calls EXCEPT ![c].pc = IF throws THEN "catch" ELSE "finalize",
                                  ![c].old = old,
                                  ![c].where = IF written THEN where ELSE None,
                                  ![c].written = written]
        /\ IF written /\ call.kind = "property"
             THEN properties' = [properties EXCEPT ![where] = row] /\ UNCHANGED banners
           ELSE IF written
             THEN banners' = [banners EXCEPT ![where] = row] /\ UNCHANGED properties
           ELSE UNCHANGED <<properties, banners>>
  /\ UNCHANGED <<loanRequests, sideVars, uploads, propertyEmployeeAssignments, propertyPendingChanges,
                 propertyPendingChangesIdempotency, bannerPendingChanges, submittedWith,
                 last>>

\* approvePendingChange, the status update (it may throw), then result.id
\* (it throws when the write returned no row) and the 200.
ApproveFinalize(c, throws) ==
  /\ calls[c].pc = "finalize"
  /\ LET call == calls[c] IN
     /\ calls' = [calls EXCEPT ![c] = IF throws \/ ~call.written
                                        THEN [call EXCEPT !.pc = "catch"]
                                        ELSE IdleCall]
     /\ IF throws THEN UNCHANGED <<propertyPendingChanges, bannerPendingChanges>>
        ELSE IF call.kind = "property"
          THEN /\ propertyPendingChanges' = [propertyPendingChanges EXCEPT
                                               ![call.changeId] = Reviewed(@, "approved")]
               /\ UNCHANGED bannerPendingChanges
        ELSE /\ bannerPendingChanges' = [bannerPendingChanges EXCEPT
                                           ![call.changeId] = Reviewed(@, "approved")]
             /\ UNCHANGED propertyPendingChanges
  /\ UNCHANGED <<loanRequests, sideVars, uploads, properties, propertyEmployeeAssignments,
                 propertyPendingChangesIdempotency, banners, submittedWith, last>>

\* if (property && propChange.propertyId && oldProperty)
RollsBack(call) ==
  call.written /\ call.target # NullId /\ call.old # NoRowOf(call.kind)

\* approvePendingChange, the catch block: the rollback update (its own
\* failure is logged and dropped), then the 500.
ApproveCatch(c, throws) ==
  /\ calls[c].pc = "catch"
  /\ LET call == calls[c] IN
     IF RollsBack(call) /\ ~throws /\ call.kind = "property"
       THEN properties' = [properties EXCEPT ![call.target] = call.old] /\ UNCHANGED banners
     ELSE IF RollsBack(call) /\ ~throws
       THEN banners' = [banners EXCEPT ![call.target] = call.old] /\ UNCHANGED properties
     ELSE UNCHANGED <<properties, banners>>
  /\ calls' = [calls EXCEPT ![c] = IdleCall]
  /\ UNCHANGED <<loanRequests, sideVars, uploads, propertyEmployeeAssignments, propertyPendingChanges,
                 propertyPendingChangesIdempotency, bannerPendingChanges, submittedWith,
                 last>>

(* ---- reject and requestChanges ------------------------------------------ *)

\* The update of rejectPendingChange and of requestChanges: the status is
\* set whatever it is now; 404 without the change.
Review(changeId, status) ==
  /\ IF IsPropertyChange(changeId)
       THEN /\ propertyPendingChanges' = [propertyPendingChanges EXCEPT
                                            ![changeId] = Reviewed(@, status)]
            /\ UNCHANGED bannerPendingChanges
     ELSE IF IsBannerChange(changeId)
       THEN /\ bannerPendingChanges' = [bannerPendingChanges EXCEPT
                                          ![changeId] = Reviewed(@, status)]
            /\ UNCHANGED propertyPendingChanges
     ELSE UNCHANGED <<propertyPendingChanges, bannerPendingChanges>>
  /\ last' = NoReply
  /\ UNCHANGED <<loanRequests, sideVars, uploads, calls, properties, propertyEmployeeAssignments,
                 propertyPendingChangesIdempotency, banners, submittedWith>>

\* rejectPendingChange (POST /pending-changes/:changeId/reject).
RejectPendingChange(changeId) == Review(changeId, "rejected")

\* requestChanges (POST /pending-changes/:changeId/request-changes).
RequestChanges(changeId) == Review(changeId, "needs_revision")

(* ---- the admin property handlers (adminPropertyController) -------------- *)

\* approvePendingChange of POST /properties/:id/approve-change/:changeId: no
\* status check; in one transaction the payload is written to the property
\* the route names (or inserted) and the change is approved; 404 without the
\* change, and a failed transaction changes nothing.
ApprovePendingChangeLegacy(id, changeId, failed) ==
  /\ IF ~IsPropertyChange(changeId) \/ failed
       THEN UNCHANGED <<properties, propertyPendingChanges>>
       ELSE LET change == propertyPendingChanges[changeId]
                found == id \in PropertyIds /\ properties[id] # NoProperty
            IN /\ change.target = NullId => HasFreshId(PayloadOf(properties), PropertyIds)
               /\ properties' =
                    IF change.target = NullId
                      THEN [properties EXCEPT ![FreshId(PayloadOf(properties), PropertyIds)] =
                              [payload |-> change.proposedPayload, deleted |-> FALSE,
                               assignedEmployeeId |-> change.proposerId,
                               createdByEmployeeId |-> change.proposerId]]
                    ELSE IF found
                      THEN [properties EXCEPT ![id].payload = change.proposedPayload]
                    ELSE properties
               /\ propertyPendingChanges' = [propertyPendingChanges EXCEPT
                                               ![changeId] = Reviewed(@, "approved")]
  /\ UNCHANGED <<propertyPendingChangesIdempotency, submittedWith>>
  /\ PropertyChangeFrame

\* rejectPendingChange of POST /properties/reject-change/:changeId: one
\* unconditional update.
RejectPendingChangeLegacy(changeId) ==
  /\ propertyPendingChanges' =
       IF IsPropertyChange(changeId)
         THEN [propertyPendingChanges EXCEPT ![changeId] = Reviewed(@, "rejected")]
         ELSE propertyPendingChanges
  /\ UNCHANGED <<propertyPendingChangesIdempotency, submittedWith>>
  /\ PropertyChangeFrame

(* ---- the banner handlers ----------------------------------------------- *)

\* What the banner handlers below leave alone; their responses are not kept.
BannerFrame ==
  /\ last' = NoReply
  /\ UNCHANGED <<loanRequests, sideVars, uploads, calls, properties, propertyEmployeeAssignments,
                 propertyPendingChanges, propertyPendingChangesIdempotency,
                 submittedWith>>

\* deleteAdminBanner: the row is deleted; banner_pending_changes.banner_id is
\* no foreign key, so the changes that name the banner stay.
DeleteAdminBanner(id) ==
  /\ banners' = [banners EXCEPT ![id] = NoBanner]
  /\ UNCHANGED bannerPendingChanges
  /\ BannerFrame

\* checkExistingPendingChange(bannerId, employeeId, excludeChangeId)
checkExistingPendingChange(bannerId, employeeId, excludeChangeId) ==
  {ch \in BannerChangeIds \ {excludeChangeId} :
     /\ bannerPendingChanges[ch].target = bannerId
     /\ bannerPendingChanges[ch].proposerId = employeeId
     /\ bannerPendingChanges[ch].status = "pending"}

\* The row createEmployeeBanner and submitBannerPendingChange insert.
SubmittedBannerChange(bannerId, actor, payload, isDraft) ==
  [target |-> bannerId, proposerId |-> actor, proposedPayload |-> payload,
   status |-> IF isDraft THEN "draft" ELSE "pending", reviewedByAdminId |-> None]

\* createEmployeeBanner: the change is inserted with bannerId null; no check.
CreateEmployeeBanner(actor, payload, isDraft, idempotencyKey) ==
  /\ HasFreshId(StatusOf(bannerPendingChanges), BannerChangeIds)
  /\ bannerPendingChanges' = [bannerPendingChanges EXCEPT
       ![FreshId(StatusOf(bannerPendingChanges), BannerChangeIds)] =
           SubmittedBannerChange(NullId, actor, payload, isDraft)]
  /\ bannerSubmittedWith' = [bannerSubmittedWith EXCEPT
       ![FreshId(StatusOf(bannerPendingChanges), BannerChangeIds)] = idempotencyKey]
  /\ UNCHANGED banners
  /\ last' = NoReply
  /\ UNCHANGED <<loanRequests, graphVars, loanRequestComments, adminSlaConfigs,
                 loanRequestAuditLogs, uploads, calls, properties,
                 propertyEmployeeAssignments, propertyPendingChanges,
                 propertyPendingChangesIdempotency, submittedWith>>

\* submitBannerPendingChange: 404 without the banner; 400 unless every
\* uploaded asset is an upload of the actor; unless a draft is created, 409
\* when the actor has a pending change for the banner.  The payload is the
\* parsed bannerSchema object; ALLOWED_EMPLOYEE_FIELDS is not consulted.
\* After the insert the update of uploads is refused (referencedByChangeId
\* references property_pending_changes): the handler answers 500 and the
\* inserted row stays.
SubmitBannerPendingChange(actor, id, payload, uploadIds, isDraft, idempotencyKey) ==
  /\ IF banners[id] = NoBanner
          \/ InvalidUploads(uploadIds, actor)
          \/ (~isDraft /\ checkExistingPendingChange(id, actor, None) # {})
       THEN UNCHANGED <<bannerPendingChanges, bannerSubmittedWith>>
       ELSE /\ HasFreshId(StatusOf(bannerPendingChanges), BannerChangeIds)
            /\ bannerPendingChanges' = [bannerPendingChanges EXCEPT
                 ![FreshId(StatusOf(bannerPendingChanges), BannerChangeIds)] =
                     SubmittedBannerChange(id, actor, payload, isDraft)]
            /\ bannerSubmittedWith' = [bannerSubmittedWith EXCEPT
                 ![FreshId(StatusOf(bannerPendingChanges), BannerChangeIds)] =
                     idempotencyKey]
  /\ UNCHANGED banners
  /\ last' = NoReply
  /\ UNCHANGED <<loanRequests, graphVars, loanRequestComments, adminSlaConfigs,
                 loanRequestAuditLogs, uploads, calls, properties,
                 propertyEmployeeAssignments, propertyPendingChanges,
                 propertyPendingChangesIdempotency, submittedWith>>

\* select from bannerPendingChanges where id = :changeId and proposerId = :employeeId
OwnBannerChange(changeId, employeeId) ==
  IF changeId \in BannerChangeIds /\ bannerPendingChanges[changeId].proposerId = employeeId
    THEN bannerPendingChanges[changeId] ELSE NoBannerChange

\* withdrawBannerPendingChange: the proposer's change, whatever its status,
\* is moved to draft or deleted; 404 without it.
WithdrawBannerPendingChange(actor, changeId, moveToDraft) ==
  /\ bannerPendingChanges' =
       IF OwnBannerChange(changeId, actor) = NoBannerChange THEN bannerPendingChanges
       ELSE IF moveToDraft THEN [bannerPendingChanges EXCEPT ![changeId].status = "draft"]
       ELSE [bannerPendingChanges EXCEPT ![changeId] = NoBannerChange]
  /\ UNCHANGED banners
  /\ BannerFrame

\* select ... where id, proposerId and (status = 'draft' or status = 'needs_revision')
OwnBannerDraft(changeId, employeeId) ==
  LET change == OwnBannerChange(changeId, employeeId) IN
  IF change.status \in {"draft", "needs_revision"} THEN change ELSE NoBannerChange

\* updateBannerDraft: replaces the proposed payload of the proposer's draft
\* or revision; 404 without it.
UpdateBannerDraft(actor, changeId, payload) ==
  /\ bannerPendingChanges' =
       IF OwnBannerDraft(changeId, actor) = NoBannerChange THEN bannerPendingChanges
       ELSE [bannerPendingChanges EXCEPT ![changeId].proposedPayload = payload]
  /\ UNCHANGED banners
  /\ BannerFrame

\* submitBannerDraft: the draft or revision becomes pending; 404 without it,
\* 409 when the change has a banner and that banner has another pending
\* change of the proposer.
SubmitBannerDraft(actor, changeId) ==
  /\ LET change == OwnBannerDraft(changeId, actor)
         existingChange ==
           IF change.target # NullId
             THEN checkExistingPendingChange(change.target, actor, changeId)
             ELSE {}
     IN bannerPendingChanges' =
          IF change = NoBannerChange \/ existingChange # {} THEN bannerPendingChanges
          ELSE [bannerPendingChanges EXCEPT ![changeId].status = "pending"]
  /\ UNCHANGED banners
  /\ BannerFrame

\* discardBannerDraft: deletes the row if it is the proposer's and a draft;
\* answers success either way.
DiscardBannerDraft(actor, changeId) ==
  /\ bannerPendingChanges' =
       IF OwnBannerChange(changeId, actor).status = "draft"
         THEN [bannerPendingChanges EXCEPT ![changeId] = NoBannerChange]
         ELSE bannerPendingChanges
  /\ UNCHANGED banners
  /\ BannerFrame

(* ---- initial state and next-state relations ----------------------------- *)

\* The agents are supervised by the employee A and are assigned no property
\* yet.
SideInitWith(slaConfigs) ==
  /\ propertyAgentAssignments = {}
  /\ users = [u \in Employees \cup Agents |->
                [assignedEmployeeId |-> IF u \in Agents THEN "A" ELSE NoAssignee,
                 deleted |-> FALSE]]
  /\ assignedAgentId = [p \in PropertyIds |-> NoAssignee]
  /\ assignReply = NoAssignReply
  /\ bannerSubmittedWith = [ch \in BannerChangeIds |-> None]
  /\ loanRequestComments = [t \in TicketIds |-> 0]
  /\ adminSlaConfigs = slaConfigs
  /\ loanRequestAuditLogs = [t \in TicketIds |-> <<>>]

\* No code inserts the row loan_request_sla_hours.
SideInit == SideInitWith(NoSlaConfig)

\* Nothing has been proposed yet.  The property p1, when there is one, is
\* assigned to both employees; so is the banner b1, when there is one, there.
ChangeTablesInit(hasProperty, hasBanner) ==
  /\ properties = [p \in PropertyIds |->
                     IF p = "p1" /\ hasProperty
                       THEN [payload |-> OldPayload, deleted |-> FALSE,
                             assignedEmployeeId |-> None, createdByEmployeeId |-> None]
                       ELSE NoProperty]
  /\ propertyEmployeeAssignments = IF hasProperty THEN {<<"p1", e>> : e \in Employees}
                                   ELSE {}
  /\ propertyPendingChanges = [ch \in PropertyChangeIds |-> NoChange]
  /\ propertyPendingChangesIdempotency = [k \in IdempotencyKeys |-> None]
  /\ banners = [b \in BannerIds |-> IF b = "b1" /\ hasBanner THEN [payload |-> OldPayload]
                                     ELSE NoBanner]
  /\ bannerPendingChanges = [ch \in BannerChangeIds |-> NoBannerChange]
  /\ uploads = [u \in UploadIds |-> [ownerId |-> IF u = "u1" THEN "A" ELSE "B",
                                      status |-> "created",
                                      referencedByChangeId |-> None]]
  /\ submittedWith = [ch \in PropertyChangeIds |-> None]
  /\ last = NoReply

ChangeInitWith(hasProperty, hasBanner) ==
  /\ ChangeTablesInit(hasProperty, hasBanner)
  /\ SideInit

\* One property and one banner exist.
ChangeInit == ChangeInitWith(TRUE, TRUE)

Init == TicketInit /\ ChangeInit

\* No request is in flight.
Quiet == \A c \in Calls : calls[c].pc = "idle"

\* The steps of submitPendingChange up to the insert, run by the calls of
\* cs for requests drawn from the given sets.
SubmitNext(cs, actors, ids, payloads, keys) ==
  \/ \E c \in cs, actor \in actors, id \in ids, payload \in payloads, key \in keys,
        isDraft \in BOOLEAN : SubmitBegin(c, actor, id, payload, <<>>, key, isDraft)
  \/ \E c \in cs : SubmitAuthorize(c)
  \/ \E c \in cs : SubmitCheck(c)
  \/ \E c \in cs : SubmitInsert(c)

\* The steps of approvePendingChange, run by one call at a time.
ApproveNext(changeIds) ==
  \/ \E c \in SeqCalls, ch \in changeIds, merged \in {None, MergedPayload} :
       ApproveBegin(c, ch, merged)
  \/ \E c \in SeqCalls, throws \in BOOLEAN : ApproveWrite(c, throws)
  \/ \E c \in SeqCalls, throws \in BOOLEAN : ApproveFinalize(c, throws)
  \/ \E c \in SeqCalls, throws \in BOOLEAN : ApproveCatch(c, throws)

\* The employee handlers for property changes other than submitPendingChange,
\* and the review handlers that set a status, one request at a time.
PropertyHandlersNext(actors, payloads) ==
  \/ Quiet /\ \E actor \in actors, ch \in PropertyChangeIds \cup {UnknownChangeId},
                 moveToDraft \in BOOLEAN : WithdrawPendingChange(actor, ch, moveToDraft)
  \/ Quiet /\ \E actor \in actors, ch \in PropertyChangeIds \cup {UnknownChangeId},
                 payload \in payloads : UpdateDraft(actor, ch, payload)
  \/ Quiet /\ \E actor \in actors, ch \in PropertyChangeIds \cup {UnknownChangeId} :
                SubmitDraft(actor, ch)
  \/ Quiet /\ \E actor \in actors, ch \in PropertyChangeIds \cup {UnknownChangeId} :
                DiscardDraft(actor, ch)

\* The employee handlers for banner changes, one request at a time.
BannerHandlersNext(actors, payloads) ==
  \/ Quiet /\ \E actor \in actors, id \in BannerIds, payload \in payloads,
                 isDraft \in BOOLEAN :
                SubmitBannerPendingChange(actor, id, payload, <<>>, isDraft, None)
  \/ Quiet /\ \E actor \in actors, ch \in BannerChangeIds \cup {UnknownChangeId},
                 moveToDraft \in BOOLEAN : WithdrawBannerPendingChange(actor, ch, moveToDraft)
  \/ Quiet /\ \E actor \in actors, ch \in BannerChangeIds \cup {UnknownChangeId},
                 payload \in payloads : UpdateBannerDraft(actor, ch, payload)
  \/ Quiet /\ \E actor \in actors, ch \in BannerChangeIds \cup {UnknownChangeId} :
                SubmitBannerDraft(actor, ch)
  \/ Quiet /\ \E actor \in actors, ch \in BannerChangeIds \cup {UnknownChangeId} :
                DiscardBannerDraft(actor, ch)

\* All the property change handlers, one request at a time.
PropertyChangeNext ==
  \/ SubmitNext(SeqCalls, {"A"}, {"p1", UnknownPropertyId}, {"new"}, {None})
  \/ Quiet /\ \E isDraft \in BOOLEAN : CreateProperty("A", "new", isDraft)
  \/ PropertyHandlersNext({"A"}, {"new"})
  \/ ApproveNext(PropertyChangeIds \cup {UnknownChangeId})
  \/ Quiet /\ \E ch \in PropertyChangeIds \cup {UnknownChangeId} : RejectPendingChange(ch)
  \/ Quiet /\ \E ch \in PropertyChangeIds \cup {UnknownChangeId} : RequestChanges(ch)
  \/ Quiet /\ \E id \in PropertyIds \cup {UnknownPropertyId},
                 ch \in PropertyChangeIds \cup {UnknownChangeId}, failed \in BOOLEAN :
                ApprovePendingChangeLegacy(id, ch, failed)
  \/ Quiet /\ \E ch \in PropertyChangeIds \cup {UnknownChangeId} :
                RejectPendingChangeLegacy(ch)

SpecPropertyChange == Init /\ [][PropertyChangeNext]_vars

\* All the banner change handlers, one request at a time.
BannerChangeNext ==
  \/ Quiet /\ \E payload \in Payloads, isDraft \in BOOLEAN :
                CreateEmployeeBanner("A", payload, isDraft, None)
  \/ BannerHandlersNext({"A"}, Payloads)
  \/ ApproveNext(BannerChangeIds \cup {UnknownChangeId})
  \/ Quiet /\ \E ch \in BannerChangeIds \cup {UnknownChangeId} : RejectPendingChange(ch)
  \/ Quiet /\ \E ch \in BannerChangeIds \cup {UnknownChangeId} : RequestChanges(ch)
  \/ Quiet /\ \E id \in BannerIds : DeleteAdminBanner(id)

SpecBannerChange == Init /\ [][BannerChangeNext]_vars

\* The operations on the changes that target an existing property or banner,
\* by two proposers, one request at a time.
LivePendingNext ==
  \/ SubmitNext(SeqCalls, Employees, {"p1"}, {"new"}, {None})
  \/ PropertyHandlersNext(Employees, {"new"})
  \/ BannerHandlersNext(Employees, {"new"})
  \/ ApproveNext(PropertyChangeIds \cup BannerChangeIds)
  \/ Quiet /\ \E ch \in PropertyChangeIds \cup BannerChangeIds : RejectPendingChange(ch)
  \/ Quiet /\ \E ch \in PropertyChangeIds \cup BannerChangeIds : RequestChanges(ch)

\* The store holds a property or a banner.
LivePendingInit ==
  /\ TicketInit
  /\ \E hasProperty \in BOOLEAN : ChangeInitWith(hasProperty, ~hasProperty)

SpecLivePending == LivePendingInit /\ [][LivePendingNext]_vars

\* submitPendingChange and withdrawPendingChange, one request at a time.
SubmitOnlyNext ==
  \/ SubmitNext(SeqCalls, Employees, {"p1", UnknownPropertyId}, Payloads,
                IdempotencyKeys \cup {None})
  \/ \E c \in SeqCalls : SubmitRecord(c)
  \/ Quiet /\ \E actor \in Employees, ch \in PropertyChangeIds, moveToDraft \in BOOLEAN :
                WithdrawPendingChange(actor, ch, moveToDraft)

SpecSubmit == Init /\ [][SubmitOnlyNext]_vars

\* Two concurrent submitPendingChange requests of one employee at a time.
SubmitRaceNext ==
  \/ SubmitNext(Calls, {"A"}, {"p1"}, {"new"}, IdempotencyKeys \cup {None})
  \/ \E c \in Calls : SubmitRecord(c)

SpecSubmitRace == Init /\ [][SubmitRaceNext]_vars

(***************************************************************************)
(* Specifications of the Ticket Workflow Engine                            *)
(***************************************************************************)

SpecTicket == Init /\ [][TicketNext]_vars

SpecStatusRace == Init /\ [][StatusRaceNext]_vars

(***************************************************************************)
(* Properties of the Ticket Workflow Engine                                *)
(***************************************************************************)

IsStatusCall(c) == calls[c].op \in {"status", "adminStatus"}
\* The call's conditional update matched its row / matched none.
Wrote(c) == calls[c].pc = "audit" \/ (calls[c].pc = "done" /\ calls[c].code = 200)
Lost(c) == calls[c].pc = "conflict" \/ (calls[c].pc = "done" /\ calls[c].code = 409)

\* Two changeStatus calls on one ticket that read the same version and have
\* both issued their conditional update.
RacedAt(c1, c2) ==
  /\ c1 # c2
  /\ IsStatusCall(c1) /\ IsStatusCall(c2)
  /\ calls[c1].id = calls[c2].id
  /\ calls[c1].ex.version = calls[c2].ex.version
  /\ Wrote(c1) \/ Lost(c1)
  /\ Wrote(c2) \/ Lost(c2)

C1_ExactlyOne ==
  \A c1, c2 \in Calls :
    RacedAt(c1, c2) =>
      /\ Wrote(c1) # Wrote(c2)
      /\ loanRequests[calls[c1].id].version = calls[c1].ex.version + 1
      /\ (calls[c1].pc = "done" /\ Lost(c1)) =>
            calls[c1].row = loanRequests[calls[c1].id]

C1_LoserStep ==
  \A c \in Calls :
    /\ (calls[c].pc = "read" /\ calls'[c].pc = "conflict") => loanRequests' = loanRequests
    /\ (calls[c].pc = "conflict" /\ calls'[c].pc = "done") =>
          /\ calls'[c].code = 409
          /\ calls'[c].row = loanRequests[calls[c].id]
          /\ calls'[c].row.version > calls[c].ex.version
          /\ loanRequests' = loanRequests

\* C1: of two concurrent changeStatus calls that read the same ticket at the
\* same version N, exactly one conditional update succeeds and the stored
\* version becomes N+1; the other writes nothing and answers 409 with the
\* row as it is now.
C1_OptimisticConcurrency == []C1_ExactlyOne /\ [][C1_LoserStep]_vars

\* C1 witness: both calls have answered, one with 200 and one with the 409
\* that carries the winner's row.
C1_Witness ==
  \E c1, c2 \in Calls :
    /\ RacedAt(c1, c2)
    /\ calls[c1].pc = "done" /\ calls[c1].code = 200
    /\ calls[c2].pc = "done" /\ calls[c2].code = 409
    /\ calls[c2].row.version = calls[c2].ex.version + 1

\* C5: a changeStatus call (finance or admin) whose (current, requested) pair
\* is outside the adjacency table answers 400 and the row keeps the status
\* and version the call read.
C5_StatusAdjacency ==
  \A c \in SeqCalls :
    ( /\ IsStatusCall(c)
      /\ calls[c].ex # NoExisting
      /\ calls[c].arg \notin ALLOWED_STATUS_TRANSITIONS(calls[c].ex.status) )
    => /\ calls[c].pc = "done" /\ calls[c].code = 400
       /\ loanRequests[calls[c].id].status = calls[c].ex.status
       /\ loanRequests[calls[c].id].version = calls[c].ex.version

C9_TakeStep ==
  \A c \in SeqCalls :
    /\ ( /\ calls[c].op = "take" /\ calls[c].pc = "read" /\ calls'[c].pc = "audit"
          /\ calls[c].ex.assigneeId = NoAssignee /\ calls[c].ex.status = "received" )
       => loanRequests'[calls[c].id] =
            [loanRequests[calls[c].id] EXCEPT !.assigneeId = calls[c].actor,
                                              !.status = "under_review",
                                              !.version = @ + 1]
    /\ ( /\ calls[c].pc = "idle" /\ calls'[c].op = "take"
          /\ calls'[c].id \in TicketIds
          /\ loanRequests[calls'[c].id].assigneeId \notin {NoAssignee, calls'[c].actor} )
       => /\ calls'[c].pc = "done" /\ calls'[c].code = 409
          /\ calls'[c].named = loanRequests[calls'[c].id].assigneeId
          /\ loanRequests' = loanRequests

\* C9: take by A on an unassigned ticket in received sets assignee = A,
\* status = under_review and version + 1; a later take by another actor B
\* answers 409 naming A and changes nothing.
C9_Take == [][C9_TakeStep]_vars

\* C9 witness: A holds the ticket (under_review, version 2) and B's take has
\* been answered 409 naming A.
C9_Witness ==
  \E c \in SeqCalls :
    /\ calls[c].op = "take" /\ calls[c].actor = "B"
    /\ calls[c].pc = "done" /\ calls[c].code = 409 /\ calls[c].named = "A"
    /\ loanRequests["t1"].assigneeId = "A"
    /\ loanRequests["t1"].status = "under_review"
    /\ loanRequests["t1"].version = 2

\* The status, assignee and escalation columns of a row.
Guarded(row) == <<row.status, row.assigneeId, row.isEscalated, row.escalationReason,
                  row.priority>>

\* C10: every step that changes a ticket's status, assignee or escalation
\* columns raises its version.
C10_VersionBump ==
  [][\A t \in TicketIds :
       Guarded(loanRequests'[t]) # Guarded(loanRequests[t]) =>
         loanRequests'[t].version > loanRequests[t].version]_vars

(***************************************************************************)
(* Properties of the Pending-Change Engine                                 *)
(***************************************************************************)

\* The property changes / banner changes of the proposer for the target that
\* are pending and no draft.
LivePropertyChanges(target, proposer) ==
  {ch \in PropertyChangeIds :
     /\ propertyPendingChanges[ch].target = target
     /\ propertyPendingChanges[ch].proposerId = proposer
     /\ propertyPendingChanges[ch].status = "pending"
     /\ ~propertyPendingChanges[ch].isDraft}
LiveBannerChanges(target, proposer) ==
  {ch \in BannerChangeIds :
     /\ bannerPendingChanges[ch].target = target
     /\ bannerPendingChanges[ch].proposerId = proposer
     /\ bannerPendingChanges[ch].status = "pending"}

\* C2: with one request handled at a time, every (property, proposer) and
\* every (banner, proposer) pair has at most one change that is pending and
\* no draft.
C2_OneLivePending ==
  \A e \in Employees :
    /\ \A p \in PropertyIds : Cardinality(LivePropertyChanges(p, e)) <= 1
    /\ \A b \in BannerIds : Cardinality(LiveBannerChanges(b, e)) <= 1

\* C2 witness: a proposer has a live pending change for p1 and a second
\* change for p1 that is none, and the last submitPendingChange was refused
\* with 409 naming the live one.
C2_Witness ==
  \E e \in Employees, ch1, ch2 \in PropertyChangeIds :
    /\ ch1 # ch2
    /\ LivePropertyChanges("p1", e) = {ch1}
    /\ propertyPendingChanges[ch2].target = "p1"
    /\ propertyPendingChanges[ch2].proposerId = e
    /\ last.code = 409 /\ last.changeId = ch1

\* C3: when approvePendingChange fails after the canonical write and before
\* the status update took effect, then on its return the row it wrote equals
\* the snapshot taken before the write (no row, for a creation) and the
\* change is still pending or needs_revision.
C3_ApproveRollback ==
  [][\A c \in SeqCalls :
       ( /\ calls[c].op = "approve" /\ calls[c].pc = "catch" /\ calls[c].written
         /\ calls'[c].pc = "idle" )
       => IF calls[c].kind = "property"
            THEN /\ properties'[calls[c].where] = calls[c].old
                 /\ propertyPendingChanges'[calls[c].changeId].status
                      \in {"pending", "needs_revision"}
            ELSE /\ banners'[calls[c].where] = calls[c].old
                 /\ bannerPendingChanges'[calls[c].changeId].status
                      \in {"pending", "needs_revision"}]_vars

\* The approvePendingChange call in flight for the change has written its
\* payload to the canonical table.
WrittenByCall(c, table) ==
  /\ calls[c].written
  /\ table[calls[c].where].payload = calls[c].payload

\* C4: a step that sets a change's status to approved is a step of an
\* approve whose payload is in the canonical store: the row the change
\* targets holds it, or a row was inserted for a creation.
C4_ApprovedOnlyIfWritten ==
  [][/\ \A ch \in BannerChangeIds :
          ( /\ bannerPendingChanges[ch].status # "approved"
            /\ bannerPendingChanges'[ch].status = "approved" )
          => \E c \in SeqCalls :
               /\ calls[c].op = "approve" /\ calls[c].changeId = ch
               /\ WrittenByCall(c, banners')
     /\ \A ch \in PropertyChangeIds :
          ( /\ propertyPendingChanges[ch].status # "approved"
            /\ propertyPendingChanges'[ch].status = "approved" )
          => \/ \E c \in SeqCalls :
                  /\ calls[c].op = "approve" /\ calls[c].changeId = ch
                  /\ WrittenByCall(c, properties')
             \/ /\ Quiet
                /\ LET change == propertyPendingChanges[ch] IN
                   IF change.target = NullId
                     THEN \E p \in PropertyIds :
                            /\ properties[p] = NoProperty
                            /\ properties'[p].payload = change.proposedPayload
                     ELSE properties'[change.target].payload = change.proposedPayload
    ]_vars

\* A reply of submitPendingChange is sent in this step.
SubmitReplied ==
  \/ \E c \in Calls : calls[c].pc # "idle" /\ calls'[c].pc = "idle"
  \/ calls' = calls /\ last'.code = 200

\* The rows that requests carrying the key inserted.
RowsOfKey(key) ==
  {ch \in PropertyChangeIds :
     propertyPendingChanges[ch] # NoChange /\ submittedWith[ch] = key}

\* C6: when a submitPendingChange with a key has returned a changeId and the
\* next request is a submitPendingChange with the same key, it returns the
\* same changeId with idempotent = true, and one row exists for the key.
C6_Replay ==
  [][( /\ last.key # None /\ last.code \in {200, 201}
       /\ SubmitReplied /\ last'.key = last.key )
     => /\ last'.changeId = last.changeId
        /\ last'.idempotent
        /\ Cardinality(RowsOfKey(last.key)') = 1]_vars

\* C6 witness: the key's second request has been answered with the change
\* of the first, idempotent = true, and that row is the only one of the key.
C6_Witness ==
  /\ last.key = "k1" /\ last.code = 200 /\ last.idempotent
  /\ RowsOfKey("k1") = {last.changeId}

\* C7: whatever the interleaving of two concurrent submitPendingChange
\* requests with the same key, at most one row is inserted for the key.
C7_OneRowPerKey ==
  \A key \in IdempotencyKeys : Cardinality(RowsOfKey(key)) <= 1

\* C8: a change that is approved or rejected keeps its status as long as
\* the row exists.
C8_Terminal ==
  [][/\ \A ch \in PropertyChangeIds :
          ( /\ propertyPendingChanges[ch].status \in {"approved", "rejected"}
            /\ propertyPendingChanges'[ch] # NoChange )
          => propertyPendingChanges'[ch].status = propertyPendingChanges[ch].status
     /\ \A ch \in BannerChangeIds :
          ( /\ bannerPendingChanges[ch].status \in {"approved", "rejected"}
            /\ bannerPendingChanges'[ch] # NoBannerChange )
          => bannerPendingChanges'[ch].status = bannerPendingChanges[ch].status
    ]_vars

(***************************************************************************)
(* The ticket version under concurrent requests                            *)
(***************************************************************************)

\* Two concurrent requests at a time, each a take, a changeStatus, a
\* reassign or an escalate of the ticket.
TicketRaceNext ==
  \/ \E c \in Calls, id \in TicketIds, a \in FinanceEmployees : TakeRead(c, id, a)
  \/ \E c \in Calls : TakeWrite(c)
  \/ \E c \in Calls : TakeAudit(c)
  \/ \E c \in Calls, id \in TicketIds, s \in Statuses,
        hasComment \in BOOLEAN : StatusRead(c, id, s, hasComment)
  \/ \E c \in Calls : StatusWrite(c)
  \/ \E c \in Calls : StatusAudit(c)
  \/ \E c \in Calls, id \in TicketIds, u \in FinanceEmployees \cup {AdminId},
        chosen \in FinanceEmployees : ReassignRead(c, id, u, FALSE, chosen)
  \/ \E c \in Calls : ReassignWrite(c)
  \/ \E c \in Calls : ReassignAudit(c)
  \/ \E c \in Calls, id \in TicketIds : EscalateRead(c, id)
  \/ \E c \in Calls : EscalateWrite(c)
  \/ \E c \in Calls : EscalateAudit(c)
  \/ \E c \in Calls : ConflictReread(c)
  \/ \E c \in Calls : Finish(c)

SpecTicketRace == Init /\ [][TicketRaceNext]_vars

\* The call's conditional update matched its row in this step.
Updated(c) == calls[c].pc = "read" /\ calls'[c].pc = "audit"

\* C11: a step in which a conditional update of take, reassign, changeStatus
\* or escalate matches raises the ticket's version by exactly 1; every other
\* step (a refused call, a conflicting update, a read, a response) leaves the
\* version as it is.
C11_VersionStep ==
  [][\A t \in TicketIds :
       IF \E c \in Calls : Updated(c) /\ calls[c].id = t
         THEN loanRequests'[t].version = loanRequests[t].version + 1
         ELSE loanRequests'[t].version = loanRequests[t].version]_vars

\* C11 witness: of two concurrent requests that read version 1, the escalate
\* was answered 200 and the take 409; the version is 2.
C11_Witness ==
  \E c, e \in Calls :
    /\ calls[c].op = "take" /\ calls[c].pc = "done" /\ calls[c].code = 409
    /\ calls[c].ex.version = 1 /\ calls[c].ex.assigneeId = NoAssignee
    /\ calls[e].op = "escalate" /\ calls[e].pc = "done" /\ calls[e].code = 200
    /\ loanRequests["t1"].version = 2

\* C20: a take whose update matches on a ticket it read in a status other
\* than received leaves the ticket's status as it was.
C20_TakeKeepsStatus ==
  [][\A c \in SeqCalls :
       ( /\ calls[c].op = "take" /\ Updated(c)
         /\ calls[c].ex.status # "received" )
       => loanRequests'[calls[c].id].status = loanRequests[calls[c].id].status]_vars

\* The call's insert into property_pending_changes happens in this step.
Inserts(c) == calls[c].op = "submit" /\ calls[c].pc = "insert" /\ calls'[c].pc # "insert"

\* C12: a non-draft submitPendingChange that has passed the live-pending
\* check inserts its pending row whatever has been inserted since the check:
\* its insert adds one live pending change to those of its (property,
\* proposer) pair, so two concurrent calls that both passed the check leave
\* two.
C12_InsertAfterCheck ==
  [][\A c \in Calls, p \in PropertyIds, e \in Employees :
       ( /\ Inserts(c) /\ ~calls[c].isDraft
         /\ calls[c].id = p /\ calls[c].actor = e )
       => /\ LivePropertyChanges(p, e) \subseteq LivePropertyChanges(p, e)'
          /\ Cardinality(LivePropertyChanges(p, e)') =
               Cardinality(LivePropertyChanges(p, e)) + 1]_vars

\* C12 witness: both concurrent calls of A for p1 have inserted; A has two
\* pending non-draft changes for p1.
C12_Witness ==
  /\ LivePropertyChanges("p1", "A") = PropertyChangeIds
  /\ \A ch \in PropertyChangeIds : submittedWith[ch] = None
  /\ \A c \in Calls : calls[c].pc = "idle"

\* The approvePendingChange call writes to the canonical table / answers 200
\* in this step.
Writes(c) == calls[c].op = "approve" /\ calls[c].pc = "write" /\ calls'[c].written
Approves(c) == calls[c].op = "approve" /\ calls[c].pc = "finalize" /\ calls'[c].pc = "idle"

\* C15: an approvePendingChange of a property creation change (propertyId
\* null) inserts one property row and changes no other; when it answers 200
\* that row carries the proposer as assignedEmployeeId and as
\* createdByEmployeeId, whatever the applied payload names, and the change
\* is approved with the admin as reviewer.
C15_ApproveCreation ==
  [][\A c \in SeqCalls :
       (calls[c].op = "approve" /\ calls[c].kind = "property" /\ calls[c].target = NullId) =>
         /\ Writes(c) =>
              \E p \in PropertyIds :
                /\ properties[p] = NoProperty /\ properties'[p] # NoProperty
                /\ calls'[c].where = p
                /\ \A q \in PropertyIds \ {p} : properties'[q] = properties[q]
         /\ Approves(c) =>
              /\ properties'[calls[c].where].assignedEmployeeId = calls[c].proposerId
              /\ properties'[calls[c].where].createdByEmployeeId = calls[c].proposerId
              /\ properties'[calls[c].where].payload = calls[c].payload
              /\ propertyPendingChanges'[calls[c].changeId].status = "approved"
              /\ propertyPendingChanges'[calls[c].changeId].reviewedByAdminId = AdminId]_vars

\* C15 witness: A's creation change was approved with the merged payload,
\* which names B as assignee; the new property p2 is assigned to A.
C15_Witness ==
  \E ch \in PropertyChangeIds :
    /\ propertyPendingChanges[ch].target = NullId
    /\ propertyPendingChanges[ch].proposerId = "A"
    /\ propertyPendingChanges[ch].status = "approved"
    /\ propertyPendingChanges[ch].reviewedByAdminId = AdminId
    /\ properties["p2"].payload = MergedPayload
    /\ AssigneeIn(MergedPayload) = "B"
    /\ properties["p2"].assignedEmployeeId = "A"
    /\ properties["p2"].createdByEmployeeId = "A"

(***************************************************************************)
(* Drafts, withdrawal and review                                           *)
(***************************************************************************)

\* A's changes for the existing property or banner, the draft, withdraw and
\* submit handlers called by A and by B, and the admin's reject and
\* requestChanges, one request at a time.
DraftNext ==
  \/ SubmitNext(SeqCalls, {"A"}, {"p1"}, {"new"}, {None})
  \/ PropertyHandlersNext(Employees, Payloads)
  \/ BannerHandlersNext(Employees, Payloads)
  \/ Quiet /\ \E ch \in PropertyChangeIds \cup BannerChangeIds : RejectPendingChange(ch)
  \/ Quiet /\ \E ch \in PropertyChangeIds \cup BannerChangeIds : RequestChanges(ch)

SpecDraft == LivePendingInit /\ [][DraftNext]_vars

\* C16: no step replaces the proposed payload of a change that is pending,
\* approved or rejected (the payload is replaced only while the change is in
\* draft or needs_revision).
C16_PayloadImmutable ==
  [][/\ \A ch \in PropertyChangeIds :
          ( /\ propertyPendingChanges[ch].status \in {"pending", "approved", "rejected"}
            /\ propertyPendingChanges'[ch] # NoChange )
          => propertyPendingChanges'[ch].proposedPayload =
               propertyPendingChanges[ch].proposedPayload
     /\ \A ch \in BannerChangeIds :
          ( /\ bannerPendingChanges[ch].status \in {"pending", "approved", "rejected"}
            /\ bannerPendingChanges'[ch] # NoBannerChange )
          => bannerPendingChanges'[ch].proposedPayload =
               bannerPendingChanges[ch].proposedPayload
    ]_vars

\* C17: a change in needs_revision, approved or rejected is neither moved to
\* draft nor deleted by a withdraw (a step that sets its status to draft, or
\* that deletes it while it is no draft).
C17_WithdrawPrecondition ==
  [][/\ \A ch \in PropertyChangeIds :
          propertyPendingChanges[ch].status \in {"needs_revision", "approved", "rejected"}
          => /\ propertyPendingChanges'[ch].status # "draft"
             /\ ~propertyPendingChanges[ch].isDraft => propertyPendingChanges'[ch] # NoChange
     /\ \A ch \in BannerChangeIds :
          bannerPendingChanges[ch].status \in {"needs_revision", "approved", "rejected"}
          => /\ bannerPendingChanges'[ch].status # "draft"
             /\ bannerPendingChanges'[ch] # NoBannerChange
    ]_vars

\* C18: a change becomes rejected only from pending or needs_revision and
\* becomes needs_revision only from pending.
C18_ReviewPrecondition ==
  [][/\ \A ch \in PropertyChangeIds :
          LET old == propertyPendingChanges[ch].status
              new == propertyPendingChanges'[ch].status
          IN /\ (new = "rejected" /\ old # new) => old \in {"pending", "needs_revision"}
             /\ (new = "needs_revision" /\ old # new) => old = "pending"
     /\ \A ch \in BannerChangeIds :
          LET old == bannerPendingChanges[ch].status
              new == bannerPendingChanges'[ch].status
          IN /\ (new = "rejected" /\ old # new) => old \in {"pending", "needs_revision"}
             /\ (new = "needs_revision" /\ old # new) => old = "pending"
    ]_vars

(***************************************************************************)
(* Validation of a submission                                              *)
(***************************************************************************)

\* uploadedAssets of the requests: none, the actor's or the other employee's
\* upload, and a list with an id no row has.
UploadLists == {<<>>, <<"u1">>, <<"u2">>, <<"u1", "u0">>}

\* The store holds the properties or the banner: p1 is assigned to A alone,
\* p2 is assigned to A and soft-deleted.
ValidateInit ==
  /\ TicketInit
  /\ \E hasProperty \in BOOLEAN :
       /\ properties = [p \in PropertyIds |->
                          IF hasProperty
                            THEN [payload |-> OldPayload, deleted |-> (p = "p2"),
                                  assignedEmployeeId |-> "A", createdByEmployeeId |-> None]
                            ELSE NoProperty]
       /\ propertyEmployeeAssignments = IF hasProperty THEN {<<p, "A">> : p \in PropertyIds}
                                        ELSE {}
       /\ banners = [b \in BannerIds |-> IF b = "b1" /\ ~hasProperty
                                          THEN [payload |-> OldPayload] ELSE NoBanner]
  /\ propertyPendingChanges = [ch \in PropertyChangeIds |-> NoChange]
  /\ propertyPendingChangesIdempotency = [k \in IdempotencyKeys |-> None]
  /\ bannerPendingChanges = [ch \in BannerChangeIds |-> NoBannerChange]
  /\ uploads = [u \in UploadIds |-> [ownerId |-> IF u = "u1" THEN "A" ELSE "B",
                                      status |-> "created",
                                      referencedByChangeId |-> None]]
  /\ submittedWith = [ch \in PropertyChangeIds |-> None]
  /\ last = NoReply
  /\ SideInit

\* submitPendingChange and submitBannerPendingChange with every kind of
\* request, one request at a time.
ValidateNext ==
  \/ \E c \in SeqCalls, actor \in Employees, id \in PropertyIds \cup {UnknownPropertyId},
        payload \in {"new", StampedPayload}, uploadIds \in UploadLists,
        key \in IdempotencyKeys \cup {None}, isDraft \in BOOLEAN :
          SubmitBegin(c, actor, id, payload, uploadIds, key, isDraft)
  \/ \E c \in SeqCalls : SubmitAuthorize(c)
  \/ \E c \in SeqCalls : SubmitUploads(c)
  \/ \E c \in SeqCalls : SubmitCheck(c)
  \/ \E c \in SeqCalls : SubmitInsert(c)
  \/ \E c \in SeqCalls : SubmitRecord(c)
  \/ Quiet /\ \E actor \in Employees, id \in BannerIds, payload \in {"new", StampedPayload},
                 uploadIds \in UploadLists, isDraft \in BOOLEAN :
                SubmitBannerPendingChange(actor, id, payload, uploadIds, isDraft, None)

SpecValidate == ValidateInit /\ [][ValidateNext]_vars

\* The list holds an id that is no upload, or an upload of another actor.
HasForeignUpload(uploadIds, actor) ==
  \E i \in 1..Len(uploadIds) :
    uploadIds[i] \notin UploadIds \/ uploads[uploadIds[i]].ownerId # actor

\* The submitPendingChange call answers in this step.
Answers(c) == calls[c].op = "submit" /\ calls[c].pc # "idle" /\ calls'[c].pc = "idle"

C14_AuthorizeFirst ==
  [][\A c \in SeqCalls :
       ( /\ calls[c].op = "submit" /\ calls[c].pc = "authorize"
         /\ \/ <<calls[c].id, calls[c].actor>> \notin propertyEmployeeAssignments
            \/ calls[c].id \notin PropertyIds
            \/ properties[calls[c].id] = NoProperty
            \/ properties[calls[c].id].deleted )
       => /\ Answers(c) /\ last'.code = 403
          /\ UNCHANGED <<propertyPendingChanges, uploads,
                          propertyPendingChangesIdempotency>>]_vars

\* C14 witness: a change of A for p1 exists (A is authorized) and the last
\* request, which carried the key k1, was answered 403; the key is not
\* recorded.
C14_Witness ==
  /\ last.code = 403 /\ last.key = "k1"
  /\ propertyPendingChangesIdempotency["k1"] = None
  /\ \E ch \in PropertyChangeIds : propertyPendingChanges[ch].target = "p1"
  /\ \A ch \in PropertyChangeIds : propertyPendingChanges[ch].target # "p2"
  /\ \A ch \in PropertyChangeIds : propertyPendingChanges[ch].proposerId # "B"

\* C19: a submitPendingChange or submitBannerPendingChange whose payload has
\* a key outside the allow-list of its entity type inserts no change.
C19_AllowList ==
  [][/\ \A c \in SeqCalls :
          ( /\ calls[c].op = "submit" /\ calls[c].pc # "idle"
            /\ ~(PayloadFields("property", calls[c].payload)
                   \subseteq ALLOWED_EMPLOYEE_FIELDS("property")) )
          => UNCHANGED propertyPendingChanges
     /\ \A actor \in Employees, id \in BannerIds, payload \in {"new", StampedPayload},
           uploadIds \in UploadLists, isDraft \in BOOLEAN :
          ( /\ Quiet
            /\ ~(PayloadFields("banner", payload) \subseteq ALLOWED_EMPLOYEE_FIELDS("banner"))
            /\ SubmitBannerPendingChange(actor, id, payload, uploadIds, isDraft, None) )
          => UNCHANGED bannerPendingChanges
    ]_vars

(***************************************************************************)
(* Creation of a ticket                                                    *)
(***************************************************************************)

\* Bound: the amounts of a request are drawn from 0..MaxAmount.
MaxAmount == 2

\* loanRequestSchema.parse succeeds: both amounts positive, and the refine
\* loanAmountNeeded <= propertyValue.
loanRequestSchemaNoRefine(propertyValue, loanAmountNeeded) ==
  propertyValue > 0 /\ loanAmountNeeded > 0
loanRequestSchema(propertyValue, loanAmountNeeded) ==
  propertyValue > 0 /\ loanAmountNeeded > 0 /\ loanAmountNeeded <= propertyValue

\* createLoanRequest: 429 over the rate limit, 400 when the schema refuses
\* the body, 404 without the user; else the ticket is inserted with the
\* amounts of the body, status received and the column defaults.
CreateLoanRequest(id, propertyValue, loanAmountNeeded, limited, userFound) ==
  /\ loanRequests[id] = NoRow
  /\ loanRequests' =
       IF ~limited /\ loanRequestSchema(propertyValue, loanAmountNeeded) /\ userFound
         THEN [loanRequests EXCEPT ![id] = [NewTicket EXCEPT
                                              !.propertyValue = propertyValue,
                                              !.loanAmountNeeded = loanAmountNeeded]]
         ELSE loanRequests
  /\ UNCHANGED calls
  /\ UNCHANGED changeVars

\* createAuditLog awaits its insert into loan_request_audit_logs without a
\* try: when the insert is refused after the conditional update of take,
\* changeStatus, reassign or escalate has matched, the handler's catch
\* answers 500 and the update stays.
CreateAuditLogFails(c) ==
  /\ calls[c].pc = "audit"
  /\ calls' = [calls EXCEPT ![c] = Reply(@, 500, NoRow)]
  /\ UNCHANGED loanRequests
  /\ UNCHANGED changeVars

\* No ticket exists at first; customers create tickets and the finance
\* employees and the admin work on them, one request at a time; an audit
\* insert may be refused.
CreateTicketInit ==
  /\ loanRequests = [t \in TicketIds |-> NoRow]
  /\ calls = [c \in Calls |-> IdleCall]
  /\ ChangeInit

CreateTicketNext ==
  \/ \E id \in TicketIds, propertyValue \in 0..MaxAmount,
        loanAmountNeeded \in 0..MaxAmount, limited \in BOOLEAN,
        userFound \in BOOLEAN :
          Quiet /\ CreateLoanRequest(id, propertyValue, loanAmountNeeded,
                                     limited, userFound)
  \/ \E c \in SeqCalls, id \in RequestIds, a \in FinanceEmployees : TakeRead(c, id, a)
  \/ \E c \in SeqCalls : TakeWrite(c)
  \/ \E c \in SeqCalls : TakeAudit(c)
  \/ \E c \in SeqCalls, id \in RequestIds, s \in Statuses,
        hasComment \in BOOLEAN : StatusRead(c, id, s, hasComment)
  \/ \E c \in SeqCalls, id \in RequestIds, s \in Statuses,
        hasComment \in BOOLEAN : AdminStatusRead(c, id, s, hasComment)
  \/ \E c \in SeqCalls : StatusWrite(c)
  \/ \E c \in SeqCalls : StatusAudit(c)
  \/ \E c \in SeqCalls, id \in RequestIds, u \in FinanceEmployees \cup {AdminId, None},
        autoAssign \in BOOLEAN, chosen \in FinanceEmployees :
          ReassignRead(c, id, u, autoAssign, chosen)
  \/ \E c \in SeqCalls : ReassignWrite(c)
  \/ \E c \in SeqCalls : ReassignAudit(c)
  \/ \E c \in SeqCalls, id \in RequestIds : EscalateRead(c, id)
  \/ \E c \in SeqCalls : EscalateWrite(c)
  \/ \E c \in SeqCalls : EscalateAudit(c)
  \/ \E ids \in SUBSET RequestIds \ {{}} : BulkEscalate(ids)
  \/ \E c \in SeqCalls : Finish(c)
  \/ \E c \in SeqCalls : CreateAuditLogFails(c)

SpecCreateTicket == CreateTicketInit /\ [][CreateTicketNext]_vars

\* C21: every stored ticket has loanAmountNeeded <= propertyValue (a request
\* with a larger loan amount inserts nothing), and no step changes the
\* amounts of a stored ticket.
C21_AmountWithinValue ==
  /\ [](\A t \in TicketIds :
          loanRequests[t] # NoRow =>
            loanRequests[t].loanAmountNeeded <= loanRequests[t].propertyValue)
  /\ [][\A t \in TicketIds :
          loanRequests[t] # NoRow =>
            /\ loanRequests'[t].propertyValue = loanRequests[t].propertyValue
            /\ loanRequests'[t].loanAmountNeeded = loanRequests[t].loanAmountNeeded]_vars

\* C21 witness: a ticket created with propertyValue 2 and loanAmountNeeded 1
\* has been taken, closed and escalated since; its amounts are as created.
C21_Witness ==
  /\ loanRequests["t1"].propertyValue = MaxAmount
  /\ loanRequests["t1"].loanAmountNeeded = 1
  /\ loanRequests["t1"].status = "closed"
  /\ loanRequests["t1"].isEscalated

(***************************************************************************)
(* Part III.  The Assignment Graph Maintainer                              *)
(***************************************************************************)

\* The propertyIds of a request: in order, twice the same id, an id no row has.
AssignLists == {<<>>, <<"p1">>, <<"p2">>, <<"p1", "p2">>, <<"p1", "p1">>,
                <<UnknownPropertyId>>}

\* dbTx.transaction(callback): what the callback wrote is committed when it
\* returns and rolled back when it throws.
transactionNoRollback(ok, written, before) == written
transaction(ok, written, before) == IF ok THEN written ELSE before

\* assignPropertiesToAgent: 400 for duplicate ids, 403 unless the agent is
\* the caller's; then, in one transaction, the agent's current properties
\* (joined with the live properties and the caller's assignments) are
\* compared with the list, the properties to add are validated (each a live
\* row, and the caller's by the junction table or by assignedEmployeeId),
\* inserted and made the agent's by properties.assignedAgentId, and the
\* properties to remove are deleted and their assignedAgentId cleared.
\* deleteFails: the database refuses the delete statement.
AssignPropertiesToAgent(employeeId, agentId, propertyIds, deleteFails) ==
  LET desired == {propertyIds[i] : i \in 1..Len(propertyIds)}
      before == <<propertyAgentAssignments, assignedAgentId>>
      agent == /\ users[agentId].assignedEmployeeId = employeeId
               /\ ~users[agentId].deleted
      currentIds == {p \in PropertyIds :
                       /\ <<p, agentId>> \in propertyAgentAssignments
                       /\ properties[p] # NoProperty /\ ~properties[p].deleted
                       /\ <<p, employeeId>> \in propertyEmployeeAssignments}
      toAdd == desired \ currentIds
      toRemove == currentIds \ desired
      propertiesToAdd == {p \in toAdd \cap PropertyIds :
                            properties[p] # NoProperty /\ ~properties[p].deleted}
      invalidProperties == {p \in propertiesToAdd :
                              /\ <<p, employeeId>> \notin propertyEmployeeAssignments
                              /\ properties[p].assignedEmployeeId # employeeId}
      afterAdd == <<propertyAgentAssignments \cup {<<p, agentId>> : p \in toAdd},
                    [p \in PropertyIds |-> IF p \in toAdd THEN agentId
                                           ELSE assignedAgentId[p]]>>
      afterRemove == <<afterAdd[1] \ {<<p, agentId>> : p \in toRemove},
                       [p \in PropertyIds |-> IF p \in toRemove THEN NoAssignee
                                              ELSE afterAdd[2][p]]>>
      code == IF Cardinality(desired) # Len(propertyIds) THEN 400
              ELSE IF ~agent THEN 403
              ELSE IF propertiesToAdd # toAdd \/ invalidProperties # {} THEN 403
              ELSE IF toRemove # {} /\ deleteFails THEN 500
              ELSE 200
      written == IF code \in {400, 403} THEN before
                 ELSE IF code = 500 THEN afterAdd
                 ELSE afterRemove
      result == transaction(code = 200, written, before)
  IN  /\ propertyAgentAssignments' = result[1]
      /\ assignedAgentId' = result[2]
      /\ assignReply' = IF code = 200
                          THEN [code |-> 200, added |-> Cardinality(toAdd),
                                removed |-> Cardinality(toRemove)]
                          ELSE [code |-> code, added |-> 0, removed |-> 0]
      /\ UNCHANGED <<loanRequests, calls, users, properties, propertyEmployeeAssignments,
                     propertyPendingChanges, propertyPendingChangesIdempotency, banners,
                     bannerPendingChanges, uploads, submittedWith, last,
                     bannerSubmittedWith, loanRequestComments, adminSlaConfigs,
                     loanRequestAuditLogs>>

\* The agents of an employee: users with assignedEmployeeId = the employee,
\* the role agent and deleted = false.
employeeAgents(employeeId) ==
  {a \in Agents : users[a].assignedEmployeeId = employeeId /\ ~users[a].deleted}

\* updateEmployee of the admin (404 without the employee): addProperties are
\* inserted for the employee; removeProperties are deleted for the
\* employee's agents and then for the employee; addAgents get the employee
\* as assignedEmployeeId; removeAgents that are the employee's get null.
UpdateEmployee(employeeId, addProperties, removeProperties, addAgents, removeAgents) ==
  LET found == ~users[employeeId].deleted
      added == propertyEmployeeAssignments \cup {<<p, employeeId>> : p \in addProperties}
      joined == [u \in DOMAIN users |->
                   IF u \in addAgents
                     THEN [users[u] EXCEPT !.assignedEmployeeId = employeeId]
                     ELSE users[u]]
  IN  /\ propertyEmployeeAssignments' =
           IF found THEN added \ {<<p, employeeId>> : p \in removeProperties}
           ELSE propertyEmployeeAssignments
      /\ propertyAgentAssignments' =
           IF found
             THEN propertyAgentAssignments \
                    {<<p, a>> : p \in removeProperties, a \in employeeAgents(employeeId)}
             ELSE propertyAgentAssignments
      /\ users' =
           IF found
             THEN [u \in DOMAIN users |->
                     IF u \in removeAgents /\ joined[u].assignedEmployeeId = employeeId
                       THEN [joined[u] EXCEPT !.assignedEmployeeId = NoAssignee]
                       ELSE joined[u]]
             ELSE users
      /\ assignReply' = NoAssignReply
      /\ UNCHANGED <<loanRequests, calls, assignedAgentId, properties,
                     propertyPendingChanges, propertyPendingChangesIdempotency, banners,
                     bannerPendingChanges, uploads, submittedWith, last,
                     bannerSubmittedWith, loanRequestComments, adminSlaConfigs,
                     loanRequestAuditLogs>>

\* reassignAndDeleteEmployee of the admin (400 for the same employee, 404
\* without either): the employee's live properties are taken from the
\* employee's agents; the employee's assignments are deleted and the live
\* ones the target lacks are inserted for the target; the users supervised
\* by the employee get the target; the employee is soft-deleted.
ReassignAndDeleteEmployee(employeeId, targetEmployeeId) ==
  LET found == /\ employeeId # targetEmployeeId
               /\ ~users[employeeId].deleted /\ ~users[targetEmployeeId].deleted
      propertiesToReassign ==
        {p \in PropertyIds : /\ <<p, employeeId>> \in propertyEmployeeAssignments
                             /\ properties[p] # NoProperty /\ ~properties[p].deleted}
      targetPropertyIds ==
        {p \in PropertyIds : <<p, targetEmployeeId>> \in propertyEmployeeAssignments}
  IN  /\ propertyAgentAssignments' =
           IF found
             THEN propertyAgentAssignments \
                    {<<p, a>> : p \in propertiesToReassign, a \in employeeAgents(employeeId)}
             ELSE propertyAgentAssignments
      /\ propertyEmployeeAssignments' =
           IF found
             THEN (propertyEmployeeAssignments \ {<<p, employeeId>> : p \in PropertyIds})
                    \cup {<<p, targetEmployeeId>> :
                            p \in propertiesToReassign \ targetPropertyIds}
             ELSE propertyEmployeeAssignments
      /\ users' =
           IF found
             THEN [u \in DOMAIN users |->
                     IF u = employeeId THEN [users[u] EXCEPT !.deleted = TRUE]
                     ELSE IF users[u].assignedEmployeeId = employeeId
                       THEN [users[u] EXCEPT !.assignedEmployeeId = targetEmployeeId]
                       ELSE users[u]]
             ELSE users
      /\ assignReply' = NoAssignReply
      /\ UNCHANGED <<loanRequests, calls, assignedAgentId, properties,
                     propertyPendingChanges, propertyPendingChangesIdempotency, banners,
                     bannerPendingChanges, uploads, submittedWith, last,
                     bannerSubmittedWith, loanRequestComments, adminSlaConfigs,
                     loanRequestAuditLogs>>

\* The property p1, made by the admin, is assigned to A; the property p2 was
\* created by A through an approved creation change, which writes
\* assignedEmployeeId and no property_employee_assignments row.
AssignInit ==
  /\ TicketInit
  /\ properties = [p \in PropertyIds |->
                     [payload |-> OldPayload, deleted |-> FALSE,
                      assignedEmployeeId |-> IF p = "p2" THEN "A" ELSE None,
                      createdByEmployeeId |-> IF p = "p2" THEN "A" ELSE None]]
  /\ propertyEmployeeAssignments = {<<"p1", "A">>}
  /\ propertyPendingChanges = [ch \in PropertyChangeIds |-> NoChange]
  /\ propertyPendingChangesIdempotency = [k \in IdempotencyKeys |-> None]
  /\ banners = [b \in BannerIds |-> NoBanner]
  /\ bannerPendingChanges = [ch \in BannerChangeIds |-> NoBannerChange]
  /\ uploads = [u \in UploadIds |-> [ownerId |-> IF u = "u1" THEN "A" ELSE "B",
                                      status |-> "created",
                                      referencedByChangeId |-> None]]
  /\ submittedWith = [ch \in PropertyChangeIds |-> None]
  /\ last = NoReply
  /\ SideInit

\* The agent whose assignments and supervision the requests of AssignNext name.
AssignAgents == {"g1"}

\* The assignment operations, one request at a time.
AssignNext ==
  \/ \E employeeId \in Employees, agentId \in AssignAgents, propertyIds \in AssignLists,
        deleteFails \in BOOLEAN :
          AssignPropertiesToAgent(employeeId, agentId, propertyIds, deleteFails)
  \/ \E employeeId \in Employees,
        addProperties \in {{}} \cup {{p} : p \in PropertyIds},
        removeProperties \in {{}} \cup {{p} : p \in PropertyIds},
        addAgents \in {{}} \cup {{a} : a \in AssignAgents},
        removeAgents \in {{}} \cup {{a} : a \in AssignAgents} :
          UpdateEmployee(employeeId, addProperties, removeProperties, addAgents,
                         removeAgents)
  \/ \E employeeId \in Employees, targetEmployeeId \in Employees :
          ReassignAndDeleteEmployee(employeeId, targetEmployeeId)

SpecAssign == AssignInit /\ [][AssignNext]_vars

(* ---- properties of the assignment graph --------------------------------- *)

\* C22: after any sequence of assignment operations, every agent->property
\* edge (a, p) is matched by an employee->property edge (e, p), e being the
\* employee who supervises a.
C22_Hierarchy ==
  \A p \in PropertyIds, a \in Agents :
    <<p, a>> \in propertyAgentAssignments =>
      /\ users[a].assignedEmployeeId \in Employees
      /\ <<p, users[a].assignedEmployeeId>> \in propertyEmployeeAssignments

\* The employee holds the live property (an employee->property edge).
Holds(employeeId, p) ==
  /\ <<p, employeeId>> \in propertyEmployeeAssignments
  /\ properties[p] # NoProperty /\ ~properties[p].deleted

\* C23: after a successful assignPropertiesToAgent(e, a, D) the agent's
\* edges to the live properties e holds are exactly D, the counts returned
\* are |D minus current| and |current minus D|, and the agent's edges to
\* properties outside e's set are as before.
C23_Reconciled ==
  [][\A e \in Employees, a \in Agents, propertyIds \in AssignLists, deleteFails \in BOOLEAN :
       (AssignPropertiesToAgent(e, a, propertyIds, deleteFails) /\ assignReply'.code = 200)
         => LET D == {propertyIds[i] : i \in 1..Len(propertyIds)}
                current == {p \in PropertyIds :
                              <<p, a>> \in propertyAgentAssignments /\ Holds(e, p)}
            IN  /\ {p \in PropertyIds :
                      <<p, a>> \in propertyAgentAssignments' /\ Holds(e, p)} = D
                /\ assignReply'.added = Cardinality(D \ current)
                /\ assignReply'.removed = Cardinality(current \ D)
                /\ \A p \in PropertyIds :
                     ~Holds(e, p) => (<<p, a>> \in propertyAgentAssignments'
                                        <=> <<p, a>> \in propertyAgentAssignments)]_vars

\* C24: an assignPropertiesToAgent that fails changes no agent->property
\* edge and no assignedAgentId; and it does fail when the list has
\* duplicate ids or a property to add is missing, soft-deleted or not the
\* caller's.
C24_Atomic ==
  [][\A e \in Employees, a \in Agents, propertyIds \in AssignLists, deleteFails \in BOOLEAN :
       AssignPropertiesToAgent(e, a, propertyIds, deleteFails)
         => LET D == {propertyIds[i] : i \in 1..Len(propertyIds)}
                toAdd == {p \in D : <<p, a>> \notin propertyAgentAssignments}
            IN  /\ assignReply'.code # 200
                     => UNCHANGED <<propertyAgentAssignments, assignedAgentId>>
                /\ ( \/ Cardinality(D) # Len(propertyIds)
                     \/ \E p \in toAdd :
                          \/ p \notin PropertyIds
                          \/ properties[p] = NoProperty
                          \/ properties[p].deleted
                          \/ /\ <<p, e>> \notin propertyEmployeeAssignments
                             /\ properties[p].assignedEmployeeId # e )
                     => assignReply'.code \in {400, 403}]_vars

\* C24 witness: a reconciliation that had added a property failed at the
\* removal of another and left the agent's edge and the pointer as they were.
C24_Witness ==
  /\ assignReply.code = 500
  /\ propertyAgentAssignments = {<<"p1", "g1">>}
  /\ assignedAgentId = [p \in PropertyIds |-> IF p = "p1" THEN "g1" ELSE NoAssignee]

(* ---- the idempotency ledger over time ----------------------------------- *)

\* C25: an idempotency record is permanent: once a key is recorded, every
\* later step (withdraw and discard included) keeps the record, and a
\* submitPendingChange answered for that key returns the recorded change id
\* as a replay and inserts no change.
C25_KeyPermanent ==
  [][\A k \in IdempotencyKeys :
       propertyPendingChangesIdempotency[k] # None
         => /\ propertyPendingChangesIdempotency'[k] = propertyPendingChangesIdempotency[k]
            /\ (last' # last /\ last'.key = k)
                 => /\ last'.idempotent
                    /\ last'.changeId = propertyPendingChangesIdempotency[k]
                    /\ propertyPendingChanges' = propertyPendingChanges]_vars

(* ---- banner submissions and the idempotency key ------------------------- *)

\* The employees create banners and propose changes of the banner b1, with
\* and without an idempotency key, and withdraw them; one request at a time.
BannerKeyNext ==
  \/ \E actor \in Employees, id \in BannerIds, isDraft \in BOOLEAN,
        key \in IdempotencyKeys \cup {None} :
          Quiet /\ SubmitBannerPendingChange(actor, id, "new", <<>>, isDraft, key)
  \/ \E actor \in Employees, isDraft \in BOOLEAN, key \in IdempotencyKeys \cup {None} :
          Quiet /\ CreateEmployeeBanner(actor, "new", isDraft, key)
  \/ \E actor \in Employees, ch \in BannerChangeIds, moveToDraft \in BOOLEAN :
          Quiet /\ WithdrawBannerPendingChange(actor, ch, moveToDraft)

SpecBannerKey == LivePendingInit /\ [][BannerKeyNext]_vars

\* C26: banner submissions honour the idempotency key: no two banner
\* changes, created or proposed for a banner, come from requests that
\* carried the same key.
C26_BannerKeyOnce ==
  \A x \in BannerChangeIds, y \in BannerChangeIds :
    ( /\ x # y
      /\ bannerPendingChanges[x] # NoBannerChange
      /\ bannerPendingChanges[y] # NoBannerChange
      /\ bannerSubmittedWith[x] # None )
    => bannerSubmittedWith[x] # bannerSubmittedWith[y]

(* ---- comments and the version guard ------------------------------------- *)

\* Two concurrent requests at a time, each a take or a status change of the
\* admin, with comments of the finance employees and the admin in between.
CommentNext ==
  \/ \E c \in Calls, id \in TicketIds, a \in FinanceEmployees : TakeRead(c, id, a)
  \/ \E c \in Calls : TakeWrite(c)
  \/ \E c \in Calls : TakeAudit(c)
  \/ \E c \in Calls, id \in TicketIds, s \in Statuses,
        hasComment \in BOOLEAN : AdminStatusRead(c, id, s, hasComment)
  \/ \E c \in Calls : StatusWrite(c)
  \/ \E c \in Calls : StatusAudit(c)
  \/ \E c \in Calls : ConflictReread(c)
  \/ \E c \in Calls : Finish(c)
  \/ \E id \in RequestIds, financeId \in FinanceEmployees :
        AddLoanRequestComment(id, financeId)
  \/ \E id \in RequestIds : AddAdminLoanRequestComment(id)

SpecComment == Init /\ [][CommentNext]_vars

\* C27: a comment on an existing ticket succeeds in every status, appends
\* one comment and leaves version, status, assignee and the escalation
\* fields of the ticket as they were; so a request that has read the ticket
\* and whose version guard matched before the comment still matches after.
C27_CommentFrame ==
  [][\A id \in TicketIds :
       /\ \A u \in FinanceEmployees \cup {AdminId} :
            (loanRequestComments[id] < MaxComments /\ loanRequests[id] # NoRow)
              => ENABLED AddLoanRequestComment(id, u)
       /\ loanRequestComments'[id] # loanRequestComments[id]
            => /\ loanRequestComments'[id] = loanRequestComments[id] + 1
               /\ loanRequests'[id].version = loanRequests[id].version
               /\ loanRequests'[id].status = loanRequests[id].status
               /\ loanRequests'[id].assigneeId = loanRequests[id].assigneeId
               /\ loanRequests'[id].isEscalated = loanRequests[id].isEscalated
               /\ loanRequests'[id].escalationReason = loanRequests[id].escalationReason
               /\ \A c \in Calls :
                    (calls[c].pc = "read" /\ VersionMatches(calls[c].id, calls[c].ex))
                      => VersionMatches(calls[c].id, calls[c].ex)']_vars

\* C27 witness: a closed ticket has a comment while a request that read it
\* is about to write under its version guard, which matches.
C27_Witness ==
  /\ loanRequests["t1"].status = "closed"
  /\ loanRequestComments["t1"] = 1
  /\ \E c \in Calls : /\ calls[c].pc = "read" /\ calls[c].id = "t1"
                      /\ calls[c].ex.status = "closed"
                      /\ VersionMatches(calls[c].id, calls[c].ex)

(* ---- audit failures ------------------------------------------------------ *)

\* C30: a failure of the audit insert does not fail the operation: a request
\* whose ticket write has been made (it is at its audit step) is answered
\* with success.
C30_AuditFailureTolerated ==
  [][\A c \in Calls :
       (calls[c].pc = "audit" /\ calls'[c].pc = "done") => calls'[c].code = 200]_vars

(***************************************************************************)
(* The Asset Reservation Tracker: uploads over time                        *)
(***************************************************************************)

\* completeUpload: 404 unless the upload is the caller's; 400 when the
\* object is not in storage; else the status becomes uploaded, whatever it
\* was.
CompleteUpload(uploadId, userId, inStorage) ==
  /\ uploads' =
       IF uploadId \in UploadIds /\ uploads[uploadId].ownerId = userId /\ inStorage
         THEN [uploads EXCEPT ![uploadId].status = "uploaded"]
         ELSE uploads
  /\ UNCHANGED <<loanRequests, calls, sideVars, properties, propertyEmployeeAssignments,
                 propertyPendingChanges, propertyPendingChangesIdempotency, banners,
                 bannerPendingChanges, submittedWith, last>>

\* The employee A proposes changes of p1, drafts or not, with or without
\* the upload u1; the owners complete their uploads.
UploadNext ==
  \/ \E c \in SeqCalls, uploadIds \in {<<>>, <<"u1">>}, isDraft \in BOOLEAN :
       SubmitBegin(c, "A", "p1", "new", uploadIds, None, isDraft)
  \/ \E c \in SeqCalls : SubmitAuthorize(c)
  \/ \E c \in SeqCalls : SubmitUploads(c)
  \/ \E c \in SeqCalls : SubmitCheck(c)
  \/ \E c \in SeqCalls : SubmitInsert(c)
  \/ \E uploadId \in UploadIds \cup {"u0"}, userId \in Employees, inStorage \in BOOLEAN :
       CompleteUpload(uploadId, userId, inStorage)

SpecUpload == ValidateInit /\ [][UploadNext]_vars

\* C28: once an upload references a change, no later step makes it
\* reference another one.
C28_SingleReference ==
  [][\A u \in UploadIds :
       uploads[u].referencedByChangeId # None
         => uploads'[u].referencedByChangeId = uploads[u].referencedByChangeId]_vars

\* C29: the status of an upload only steps from created to uploaded and from
\* uploaded to referenced.
C29_Lifecycle ==
  [][\A u \in UploadIds :
       \/ uploads'[u].status = uploads[u].status
       \/ uploads[u].status = "created" /\ uploads'[u].status = "uploaded"
       \/ uploads[u].status = "uploaded" /\ uploads'[u].status = "referenced"]_vars

(***************************************************************************)
(* The SLA deadline of a ticket                                            *)
(***************************************************************************)

\* updateSlaConfig accepts hours between 1 and 168; these are the values the
\* admin sets here.
SlaHours == {12, 48}

\* getSlaConfig: the configured hours, 24 when there is no row.
getSlaConfig == IF adminSlaConfigs = NoSlaConfig THEN DefaultSlaHours
                ELSE CHOOSE h \in adminSlaConfigs : TRUE

\* updateSlaConfig: an UPDATE of the row loan_request_sla_hours; it changes
\* nothing when there is no such row.
UpdateSlaConfig(hours) ==
  /\ adminSlaConfigs' = IF adminSlaConfigs = NoSlaConfig THEN NoSlaConfig ELSE {hours}
  /\ UNCHANGED <<loanRequests, calls, properties, propertyEmployeeAssignments,
                 propertyPendingChanges, propertyPendingChangesIdempotency, banners,
                 bannerPendingChanges, uploads, submittedWith, last, graphVars,
                 bannerSubmittedWith, loanRequestComments, loanRequestAuditLogs>>

\* No ticket exists at first.  The row loan_request_sla_hours is absent, or
\* it was inserted into the database by hand with the default of 24 hours.
SlaInit ==
  /\ loanRequests = [t \in TicketIds |-> NoRow]
  /\ calls = [c \in Calls |-> IdleCall]
  /\ ChangeTablesInit(TRUE, TRUE)
  /\ \E slaConfigs \in {NoSlaConfig, {DefaultSlaHours}} : SideInitWith(slaConfigs)

\* The admin sets the SLA hours, customers create tickets and the finance
\* employees take them.
SlaNext ==
  \/ \E hours \in SlaHours : Quiet /\ UpdateSlaConfig(hours)
  \/ \E id \in TicketIds, propertyValue \in 0..MaxAmount,
        loanAmountNeeded \in 0..MaxAmount, limited \in BOOLEAN,
        userFound \in BOOLEAN :
          Quiet /\ CreateLoanRequest(id, propertyValue, loanAmountNeeded,
                                     limited, userFound)
  \/ \E c \in Calls, id \in TicketIds, a \in FinanceEmployees : TakeRead(c, id, a)
  \/ \E c \in Calls : TakeWrite(c)
  \/ \E c \in Calls : TakeAudit(c)
  \/ \E c \in Calls : ConflictReread(c)
  \/ \E c \in Calls : Finish(c)

SpecSla == SlaInit /\ [][SlaNext]_vars

AgentPointerNext ==
  \E employeeId \in Employees, agentId \in Agents, propertyIds \in AssignLists,
     deleteFails \in BOOLEAN :
       AssignPropertiesToAgent(employeeId, agentId, propertyIds, deleteFails)

SpecAgentPointer == AssignInit /\ [][AgentPointerNext]_vars

\* C32: when a step removes the edge (agent a, property p) and p's
\* assignedAgentId names a different agent, the pointer stays as it was.
C32_PointerOfOtherAgentKept ==
  [][\A p \in PropertyIds, a \in Agents :
       /\ <<p, a>> \in propertyAgentAssignments
       /\ <<p, a>> \notin propertyAgentAssignments'
       /\ assignedAgentId[p] \in Agents \ {a}
       => assignedAgentId'[p] = assignedAgentId[p]]_vars

\* C33: for every property PendingChange, isDraft is true exactly when the
\* status is draft.
C33_DraftFlag ==
  \A ch \in PropertyChangeIds :
    propertyPendingChanges[ch] # NoChange =>
      (propertyPendingChanges[ch].isDraft <=> propertyPendingChanges[ch].status = "draft")

(***************************************************************************)
(* Two approve requests at a time                                          *)
(***************************************************************************)

\* No property exists yet and nothing has been proposed.
ApproveRaceInit == TicketInit /\ ChangeInitWith(FALSE, TRUE)

\* The employee A proposes new properties and the admin's approve requests
\* run two at a time; no statement throws.
ApproveRaceNext ==
  \/ Quiet /\ CreateProperty("A", "new", FALSE)
  \/ \E c \in Calls, ch \in PropertyChangeIds, merged \in {None, MergedPayload} :
       ApproveBegin(c, ch, merged)
  \/ \E c \in Calls : ApproveWrite(c, FALSE)
  \/ \E c \in Calls : ApproveFinalize(c, FALSE)

SpecApproveRace == ApproveRaceInit /\ [][ApproveRaceNext]_vars

\* C34: the approve calls insert at most one property row per creation
\* change: there are never more property rows than creation changes.
C34_AppliedOnce ==
  Cardinality({p \in PropertyIds : properties[p] # NoProperty})
    <= Cardinality({ch \in PropertyChangeIds :
                      /\ propertyPendingChanges[ch] # NoChange
                      /\ propertyPendingChanges[ch].target = NullId})

\* C35: a step in which the version-guarded update of a take, reassign,
\* changeStatus or escalate matches finds the ticket's status, assignee and
\* escalation fields as the call read them: no other operation changed them
\* in between (so a reassign overwrites no assignee a bulkReassign has set
\* since the read).
C35_GuardSeesEveryChange ==
  [][\A c \in Calls :
       Updated(c) =>
         /\ loanRequests[calls[c].id].status = calls[c].ex.status
         /\ loanRequests[calls[c].id].assigneeId = calls[c].ex.assigneeId
         /\ loanRequests[calls[c].id].isEscalated = calls[c].ex.isEscalated
         /\ loanRequests[calls[c].id].escalationReason = calls[c].ex.escalationReason]_vars

(***************************************************************************)
(* The proposer of an approved creation                                    *)
(***************************************************************************)

\* The employee A proposes new properties, the admin approves, and A submits
\* changes for the properties that exist, one request at a time.
CreatedPropertyNext ==
  \/ Quiet /\ CreateProperty("A", "new", FALSE)
  \/ ApproveNext(PropertyChangeIds)
  \/ SubmitNext(SeqCalls, {"A"}, PropertyIds, {"new"}, {None})

SpecCreatedProperty == Init /\ [][CreatedPropertyNext]_vars

\* The property p was inserted by the approve of a creation change of e.
CreatedByApprove(p, e) ==
  /\ p \in PropertyIds /\ properties[p] # NoProperty /\ ~properties[p].deleted
  /\ properties[p].createdByEmployeeId = e
  /\ \E ch \in PropertyChangeIds :
       /\ propertyPendingChanges[ch].status = "approved"
       /\ propertyPendingChanges[ch].target = NullId
       /\ propertyPendingChanges[ch].proposerId = e

\* C36: a property created by the approve of a creation change has an
\* employee->property edge for its proposer, and the proposer's submitChange
\* that targets it is not answered 403.
C36_ProposerAuthorized ==
  /\ [](\A p \in PropertyIds, e \in Employees :
          CreatedByApprove(p, e) => <<p, e>> \in propertyEmployeeAssignments)
  /\ [][\A c \in SeqCalls :
          ( /\ calls[c].pc = "authorize"
            /\ CreatedByApprove(calls[c].id, calls[c].actor) )
          => last'.code # 403]_vars

(***************************************************************************)
(* Drafts and the authorization of their proposer                          *)
(***************************************************************************)

\* deleteAdminProperty: the employee assignments of the property are
\* deleted and the property row, when there is one, is marked deleted; the
\* agent assignments and the pending changes of the property stay.
DeleteAdminProperty(id) ==
  /\ propertyEmployeeAssignments' =
       {a \in propertyEmployeeAssignments : a[1] # id}
  /\ properties' = [p \in PropertyIds |->
                      IF p = id /\ properties[p] # NoProperty
                        THEN [properties[p] EXCEPT !.deleted = TRUE]
                        ELSE properties[p]]
  /\ last' = NoReply
  /\ UNCHANGED <<loanRequests, sideVars, uploads, calls, propertyPendingChanges,
                 propertyPendingChangesIdempotency, banners, bannerPendingChanges,
                 submittedWith>>

\* The employee A saves and submits changes of p1 and submits or withdraws
\* the drafts; between the requests the admin takes p1 from A or gives it
\* back, or deletes p1.
DraftAuthorizationNext ==
  \/ SubmitNext(SeqCalls, {"A"}, {"p1"}, {"new"}, {None})
  \/ Quiet /\ \E ch \in PropertyChangeIds : SubmitDraft("A", ch)
  \/ Quiet /\ \E ch \in PropertyChangeIds : WithdrawPendingChange("A", ch, TRUE)
  \/ Quiet /\ \E addProperties \in {{}, {"p1"}}, removeProperties \in {{}, {"p1"}} :
                UpdateEmployee("A", addProperties, removeProperties, {}, {})
  \/ Quiet /\ DeleteAdminProperty("p1")

SpecDraftAuthorization == Init /\ [][DraftAuthorizationNext]_vars

\* C37: a step that brings a change of an existing property into status
\* pending finds its proposer assigned to the target and the target not
\* deleted.
C37_PendingOnlyWhenAuthorized ==
  [][\A ch \in PropertyChangeIds, id \in PropertyIds, e \in Employees :
       ( /\ propertyPendingChanges[ch].status # "pending"
         /\ propertyPendingChanges'[ch].status = "pending"
         /\ propertyPendingChanges'[ch].target = id
         /\ propertyPendingChanges'[ch].proposerId = e )
       => Authorized(id, e)]_vars

\* C38: a ticket with an assignee is never in status received.
C38_AssignedNotReceived ==
  \A t \in TicketIds :
    ( loanRequests[t] # NoRow /\ loanRequests[t].assigneeId # NoAssignee )
      => loanRequests[t].status # "received"

(***************************************************************************)
(* The status_change entries of the audit log                              *)
(***************************************************************************)

\* C39: a request that changed the status of its ticket (take, reassign,
\* finance or admin changeStatus) and answers 200 has appended one
\* status_change entry, with the status before as oldValue and the status
\* after as newValue.
C39_StatusChangeAudited ==
  [][\A c \in Calls :
       ( /\ calls[c].pc = "audit" /\ calls'[c].pc = "done" /\ calls'[c].code = 200
         /\ calls[c].row.status # calls[c].ex.status )
       => /\ Len(loanRequestAuditLogs'[calls[c].id])
               = Len(loanRequestAuditLogs[calls[c].id]) + 1
          /\ loanRequestAuditLogs'[calls[c].id][Len(loanRequestAuditLogs'[calls[c].id])]
               = StatusChange(calls[c].ex.status, calls[c].row.status)]_vars

\* Two concurrent requests at a time, each a take or a changeStatus (finance
\* or admin) of the ticket.
AuditChainNext ==
  \/ \E c \in Calls, id \in TicketIds, a \in FinanceEmployees : TakeRead(c, id, a)
  \/ \E c \in Calls : TakeWrite(c)
  \/ \E c \in Calls : TakeAudit(c)
  \/ \E c \in Calls, id \in TicketIds, s \in Statuses,
        hasComment \in BOOLEAN : StatusRead(c, id, s, hasComment)
  \/ \E c \in Calls, id \in TicketIds, s \in Statuses,
        hasComment \in BOOLEAN : AdminStatusRead(c, id, s, hasComment)
  \/ \E c \in Calls : StatusWrite(c)
  \/ \E c \in Calls : StatusAudit(c)
  \/ \E c \in Calls : ConflictReread(c)
  \/ \E c \in Calls : Finish(c)

SpecAuditChain == Init /\ [][AuditChainNext]_vars

\* C40: whenever no request is between its ticket write and its audit
\* insert, the status_change entries of a ticket form a chain in insertion
\* order (each oldValue is the newValue of the entry before) and the last
\* newValue is the ticket's status.
C40_AuditChain ==
  (\A c \in Calls : calls[c].pc # "audit") =>
    \A t \in TicketIds :
      LET log == loanRequestAuditLogs[t] IN
        /\ \A i \in 2..Len(log) : log[i].oldValue = log[i - 1].newValue
        /\ Len(log) > 0 => log[Len(log)].newValue = loanRequests[t].status

====
